---- MODULE Spec2Model ----
(***************************************************************************)
(* Verification model of the acadwrite marker subsystem:                   *)
(*   MarkerParser   (workflows/marker_parser.py)                           *)
(*   MarkerExpander (workflows/marker_expander.py)                         *)
(*   DocumentProcessor (workflows/document_processor.py)                   *)
(*                                                                         *)
(* A text is a sequence of lexical tokens; the token "\n" is the line      *)
(* break.  str.split("\n"), "\n".join, str.strip, str.lower and the three  *)
(* regular expressions of MarkerParser are operators over such sequences.  *)
(***************************************************************************)
EXTENDS Integers, Sequences, FiniteSets, TLC

VARIABLES
    pc,                     \* position in the operation being run
    text,                   \* the markdown text (original_text in expand_file)
    lines,                  \* parse_markers: text.split("\n")
    i,                      \* parse_markers: loop index (0-based)
    markers,                \* parse_markers: list of ExpansionMarker
    current_heading,        \* parse_markers: Optional[str]
    current_heading_level,  \* parse_markers: int
    start_line,             \* parse_markers: line of the opener being closed
    content_lines,          \* parse_markers: lines accumulated after the opener
    operation,              \* parse_markers: operation of the opener
    params,                 \* parse_markers: params of the opener
    replacements,           \* replace_all_markers: the (marker, content) pairs
    sorted_expansions,      \* replace_all_markers: pairs still to apply
    result,                 \* replace_all_markers: text after the pairs applied
    expanded_text,          \* the text returned
    llm,                    \* MarkerExpander.llm is not None
    default_search_type,    \* expand_file argument, None or a string
    default_answer_format,  \* expand_file argument, None or a string
    expansions,             \* expand_file: list of ExpandedContent
    outcomes,               \* how each await of expand_marker ended
    call_log,               \* the collaborator calls made, with their results
    fileintel,              \* DocumentProcessor.fileintel is not None
    doc_operation,          \* process_document argument operation
    chunks,                 \* process_document: the chunks of the document
    processed_chunks,       \* process_document: list of ProcessedChunk
    processed_doc,          \* the ProcessedDocument returned, None before
    doc_error,              \* the exception process_document raised, None before
    include_synthesis,      \* CounterargumentGenerator.generate argument
    supporting_response,    \* generate: response to the query with the claim
    inverted_claim,         \* generate: the claim inverted by the LLM
    contradicting_response, \* generate: response to the query with the inversion
    gen_report,             \* the CounterargumentReport returned, None before
    gen_error,              \* the exception generate raised, None before
    max_tokens,             \* MarkdownChunker.max_tokens
    sections,               \* chunk_markdown: the sections of the document
    section_index,          \* chunk_markdown: sections already chunked
    context_call,           \* extract_context: its arguments and its result
    cleaned_sentences,      \* _split_into_sentences: the sentences returned
    outline,                \* ChapterProcessor.process argument: the outline items in pre-order
    continue_on_error,      \* ChapterProcessor.process argument
    chapter_sections,       \* process: the list sections
    chapter_context,        \* process: the running context
    next_item,              \* process: the outline item _process_item handles next
    generate_calls,         \* the calls of section_generator.generate, with their results
    chapter,                \* the Chapter returned, None before
    chapter_error,          \* the exception process raised, None before
    _client,                \* FileIntelClient._client: None or the connection held
    connections,            \* the httpx.AsyncClient objects created so far, open or closed
    client_log              \* the calls made on the FileIntelClient, with their results

parserVars == <<lines, i, markers, current_heading, current_heading_level,
                start_line, content_lines, operation, params>>

replaceVars == <<replacements, sorted_expansions, result, expanded_text>>

expandVars == <<llm, default_search_type, default_answer_format, expansions,
                outcomes, call_log>>

docVars == <<fileintel, doc_operation, chunks, processed_chunks, processed_doc,
             doc_error>>

counterVars == <<include_synthesis, supporting_response, inverted_claim,
                 contradicting_response, gen_report, gen_error>>

chunkerVars == <<max_tokens, sections, section_index>>

sentenceVars == <<cleaned_sentences>>

chapterVars == <<outline, continue_on_error, chapter_sections, chapter_context, next_item, generate_calls, chapter, chapter_error>>

clientVars == <<_client, connections, client_log>>

nonParser == <<replaceVars, llm, default_search_type, default_answer_format,
               expansions, outcomes, call_log, docVars, counterVars,
               chunkerVars, context_call,
    sentenceVars,
    chapterVars,
    clientVars>>

nonContext == <<replaceVars, expandVars, docVars, counterVars, chunkerVars,
    sentenceVars,
    chapterVars,
    clientVars>>

nonReplace == <<expandVars, docVars, counterVars, chunkerVars, context_call,
    sentenceVars,
    chapterVars,
    clientVars>>

nonExpand == <<docVars, counterVars, chunkerVars, context_call,
    sentenceVars,
    chapterVars,
    clientVars>>

nonDoc == <<counterVars, chunkerVars, context_call,
    sentenceVars,
    chapterVars,
    clientVars>>

nonCounter == <<chunkerVars, context_call,
    sentenceVars,
    chapterVars,
    clientVars>>

nonChunker == <<parserVars, replaceVars, expandVars, fileintel, doc_operation,
                processed_chunks, processed_doc, doc_error, counterVars,
                context_call,
    sentenceVars,
    chapterVars,
    clientVars>>

-----------------------------------------------------------------------------
(* Bounds *)

MaxLines == 4

MaxReplLines == 3

MaxReplacements == 2

-----------------------------------------------------------------------------
(* Tokens and strings *)

NL == "\n"

Whitespace == {" ", NL}

\* tokens that are not matched by \w
NonWord == {" ", NL, "#", "<!--", "-->", "=", "-", "*"}

None == [some |-> FALSE, val |-> <<>>]

Some(v) == [some |-> TRUE, val |-> v]

\* str.lower() on one token
LowerTok(t) ==
    CASE t = "ACADWRITE:" -> "acadwrite:"
      [] t = "ACADWRITE"  -> "acadwrite"
      [] t = "END"        -> "end"
      [] t = "EVIDENCE"   -> "evidence"
      [] t = "Citations"  -> "citations"
      [] t = "CONTRADICT" -> "contradict"
      [] t = "Summary"    -> "summary"
      [] t = "Research shows" -> "research shows"
      [] OTHER            -> t

RECURSIVE LStrip(_)
LStrip(s) ==
    IF s # <<>> /\ Head(s) \in Whitespace THEN LStrip(Tail(s)) ELSE s

RECURSIVE RStrip(_)
RStrip(s) ==
    IF s # <<>> /\ s[Len(s)] \in Whitespace
    THEN RStrip(SubSeq(s, 1, Len(s) - 1))
    ELSE s

\* str.strip()
Strip(s) == RStrip(LStrip(s))

\* Split(s)[k] is the k-th piece of s.split("\n")
RECURSIVE SplitFrom(_, _)
SplitFrom(s, cur) ==
    IF s = <<>> THEN <<cur>>
    ELSE IF Head(s) = NL THEN <<cur>> \o SplitFrom(Tail(s), <<>>)
    ELSE SplitFrom(Tail(s), Append(cur, Head(s)))

Split(s) == SplitFrom(s, <<>>)

\* "\n".join(ls)
RECURSIVE Join(_)
Join(ls) ==
    IF ls = <<>> THEN <<>>
    ELSE IF Len(ls) = 1 THEN ls[1]
    ELSE ls[1] \o <<NL>> \o Join(Tail(ls))

\* s[a:b] of Python, 0-based, clamped
Slice(s, a, b) ==
    LET lo == IF a < 0 THEN 0 ELSE a
        hi == IF b > Len(s) THEN Len(s) ELSE b
    IN  IF lo >= hi THEN <<>> ELSE SubSeq(s, lo + 1, hi)

\* number of leading tokens of s that lie in the set S
RECURSIVE LeadCount(_, _)
LeadCount(s, S) ==
    IF s # <<>> /\ Head(s) \in S THEN 1 + LeadCount(Tail(s), S) ELSE 0

Drop(s, n) == Slice(s, n, Len(s))

-----------------------------------------------------------------------------
(* MarkerOperation and the three patterns *)

MarkerOperation == {"expand", "evidence", "citations", "clarity", "contradict"}

\* HEADING_PATTERN = ^(#{1,6})\s+(.+)$ matched against the raw line
HeadingHashes(line) == LeadCount(line, {"#"})

HeadingMatch(line) ==
    LET n == HeadingHashes(line)
    IN  /\ n >= 1
        /\ n <= 6
        /\ Len(line) >= n + 2
        /\ line[n + 1] \in Whitespace

\* group(2).strip()
HeadingText(line) == Strip(Drop(line, HeadingHashes(line) + 1))

\* the part of a stripped line after "<!--\s*ACADWRITE:\s*", or <<"-->">>-free
\* garbage when the prefix does not match
StartPrefixOk(s) ==
    /\ s # <<>>
    /\ Head(s) = "<!--"
    /\ LET a == LStrip(Tail(s))
       IN  /\ a # <<>>
           /\ LowerTok(Head(a)) = "acadwrite:"
           /\ LET b == LStrip(Tail(a))
              IN  /\ b # <<>>
                  /\ Head(b) \notin NonWord

StartAfterKeyword(s) == LStrip(Tail(LStrip(Tail(s))))

\* group(1)
StartOperationToken(s) == Head(StartAfterKeyword(s))

\* what follows group(1)
StartRest(s) == Tail(StartAfterKeyword(s))

\* smallest e >= 1 with r[e+1..] matching \s*-->, or 0: the lazy (.+?)
RECURSIVE LazyEnd(_, _)
LazyEnd(r, e) ==
    IF e >= Len(r) THEN 0
    ELSE LET t == LStrip(Drop(r, e))
         IN  IF t # <<>> /\ Head(t) = "-->" THEN e ELSE LazyEnd(r, e + 1)

\* START_PATTERN.match(s): (?:\s+(.+?))?\s*--> after the operation token
StartMatch(s) ==
    /\ StartPrefixOk(s)
    /\ LET r    == StartRest(s)
           lead == LeadCount(r, Whitespace)
           aft  == Drop(r, lead)
       IN  \/ aft # <<>> /\ Head(aft) = "-->"
           \/ lead >= 1 /\ LazyEnd(aft, 1) > 0

\* group(2) of START_PATTERN, None when the optional group took no part
StartParamsStr(s) ==
    LET r    == StartRest(s)
        lead == LeadCount(r, Whitespace)
        aft  == Drop(r, lead)
        e    == IF lead >= 1 THEN LazyEnd(aft, 1) ELSE 0
    IN  IF e > 0 THEN Some(Slice(aft, 0, e))
        ELSE IF lead >= 2 THEN Some(<<" ">>)
        ELSE None

\* END_PATTERN.match(s) = <!--\s*END\s+ACADWRITE\s*-->
EndMatch(s) ==
    /\ s # <<>>
    /\ Head(s) = "<!--"
    /\ LET a == LStrip(Tail(s))
       IN  /\ a # <<>>
           /\ LowerTok(Head(a)) = "end"
           /\ Tail(a) # <<>>
           /\ Head(Tail(a)) \in Whitespace
           /\ LET b == LStrip(Tail(a))
              IN  /\ b # <<>>
                  /\ LowerTok(Head(b)) = "acadwrite"
                  /\ LET c == LStrip(Tail(b))
                     IN  c # <<>> /\ Head(c) = "-->"

\* variant: the token is looked up without .lower()
ParseOperationCaseSensitive(tok) ==
    IF tok \in MarkerOperation THEN tok ELSE "expand"

\* MarkerOperation(operation_str) with the ValueError fallback
ParseOperation(tok) ==
    IF LowerTok(tok) \in MarkerOperation THEN LowerTok(tok) ELSE "expand"

\* str.split(): the whitespace-separated parts of s
RECURSIVE Words(_)
Words(s) ==
    LET a == LStrip(s)
    IN  IF a = <<>> THEN <<>>
        ELSE LET k == CHOOSE k \in 1..Len(a) :
                          /\ \A j \in 1..k : a[j] \notin Whitespace
                          /\ (k = Len(a) \/ a[k + 1] \in Whitespace)
             IN  <<Slice(a, 0, k)>> \o Words(Drop(a, k))

\* position of the first "=" in part, 0 when there is none
RECURSIVE FirstEq(_, _)
FirstEq(part, k) ==
    IF k > Len(part) THEN 0
    ELSE IF part[k] = "=" THEN k ELSE FirstEq(part, k + 1)

\* dict assignment d[key] = value
DictSet(d, key, value) ==
    [k \in (DOMAIN d) \cup {key} |-> IF k = key THEN value ELSE d[k]]

EmptyDict == [k \in {} |-> <<>>]

RECURSIVE ParseParts(_, _)
ParseParts(parts, d) ==
    IF parts = <<>> THEN d
    ELSE LET part == Head(parts)
             e    == FirstEq(part, 1)
         IN  IF e > 0
             THEN ParseParts(Tail(parts),
                     DictSet(d, Strip(Slice(part, 0, e - 1)),
                                Strip(Drop(part, e))))
             ELSE ParseParts(Tail(parts), d)

_parse_params(params_str) == ParseParts(Words(params_str), EmptyDict)

-----------------------------------------------------------------------------
(* MarkerParser.parse_markers, one action per loop step *)

parse_begin ==
    /\ UNCHANGED nonParser
    /\ pc = "parse"
    /\ lines' = Split(text)
    /\ markers' = <<>>
    /\ current_heading' = None
    /\ current_heading_level' = 1
    /\ i' = 0
    /\ pc' = "scan"
    /\ UNCHANGED <<text, start_line, content_lines, operation, params>>

\* lines 51-56
TrackHeading ==
    /\ UNCHANGED nonParser
    /\ pc = "scan"
    /\ i < Len(lines)
    /\ HeadingMatch(lines[i + 1])
    /\ current_heading_level' = HeadingHashes(lines[i + 1])
    /\ current_heading' = Some(HeadingText(lines[i + 1]))
    /\ i' = i + 1
    /\ UNCHANGED <<pc, text, lines, markers, start_line, content_lines,
                   operation, params>>

\* variant: start_line is taken after the index moved past the opener
StartMarkerOneBased ==
    /\ UNCHANGED nonParser
    /\ pc = "scan"
    /\ i < Len(lines)
    /\ ~HeadingMatch(lines[i + 1])
    /\ StartMatch(Strip(lines[i + 1]))
    /\ LET s  == Strip(lines[i + 1])
           ps == StartParamsStr(s)
       IN  /\ operation' = ParseOperation(StartOperationToken(s))
           /\ params' = IF ps.some /\ ps.val # <<>>
                        THEN _parse_params(ps.val) ELSE EmptyDict
    /\ start_line' = i + 1
    /\ content_lines' = <<>>
    /\ i' = i + 1
    /\ pc' = "find_end"
    /\ UNCHANGED <<text, lines, markers, current_heading, current_heading_level>>

\* lines 59-77
StartMarker ==
    /\ UNCHANGED nonParser
    /\ pc = "scan"
    /\ i < Len(lines)
    /\ ~HeadingMatch(lines[i + 1])
    /\ StartMatch(Strip(lines[i + 1]))
    /\ LET s  == Strip(lines[i + 1])
           ps == StartParamsStr(s)
       IN  /\ operation' = ParseOperation(StartOperationToken(s))
           /\ params' = IF ps.some /\ ps.val # <<>>
                        THEN _parse_params(ps.val) ELSE EmptyDict
    /\ start_line' = i
    /\ content_lines' = <<>>
    /\ i' = i + 1
    /\ pc' = "find_end"
    /\ UNCHANGED <<text, lines, markers, current_heading, current_heading_level>>

\* line 101 for a line that is neither heading nor opener
SkipLine ==
    /\ UNCHANGED nonParser
    /\ pc = "scan"
    /\ i < Len(lines)
    /\ ~HeadingMatch(lines[i + 1])
    /\ ~StartMatch(Strip(lines[i + 1]))
    /\ i' = i + 1
    /\ UNCHANGED <<pc, text, lines, markers, current_heading,
                   current_heading_level, start_line, content_lines,
                   operation, params>>

\* lines 80-93, then line 101
EndFound ==
    /\ UNCHANGED nonParser
    /\ pc = "find_end"
    /\ i < Len(lines)
    /\ EndMatch(Strip(lines[i + 1]))
    /\ markers' = Append(markers,
          [operation     |-> operation,
           start_line    |-> start_line,
           end_line      |-> i,
           content       |-> Strip(Join(content_lines)),
           heading       |-> current_heading,
           heading_level |-> current_heading_level,
           params        |-> params])
    /\ i' = i + 1
    /\ pc' = "scan"
    /\ UNCHANGED <<text, lines, current_heading, current_heading_level,
                   start_line, content_lines, operation, params>>

\* lines 94-96
Accumulate ==
    /\ UNCHANGED nonParser
    /\ pc = "find_end"
    /\ i < Len(lines)
    /\ ~EndMatch(Strip(lines[i + 1]))
    /\ content_lines' = Append(content_lines, lines[i + 1])
    /\ i' = i + 1
    /\ UNCHANGED <<pc, text, lines, markers, current_heading,
                   current_heading_level, start_line, operation, params>>

\* variant: the end of the document closes an open region
EndMissingClosesAtEof ==
    /\ UNCHANGED nonParser
    /\ pc = "find_end"
    /\ i >= Len(lines)
    /\ markers' = Append(markers,
          [operation     |-> operation,
           start_line    |-> start_line,
           end_line      |-> i,
           content       |-> Strip(Join(content_lines)),
           heading       |-> current_heading,
           heading_level |-> current_heading_level,
           params        |-> params])
    /\ i' = i + 1
    /\ pc' = "scan"
    /\ UNCHANGED <<text, lines, current_heading, current_heading_level,
                   start_line, content_lines, operation, params>>

\* lines 97-101: the while-else, no end marker found
EndMissing ==
    /\ UNCHANGED nonParser
    /\ pc = "find_end"
    /\ i >= Len(lines)
    /\ i' = i + 1
    /\ pc' = "scan"
    /\ UNCHANGED <<text, lines, markers, current_heading,
                   current_heading_level, start_line, content_lines,
                   operation, params>>

\* line 103
parse_return ==
    /\ UNCHANGED nonParser
    /\ pc = "scan"
    /\ i >= Len(lines)
    /\ pc' = "parsed"
    /\ UNCHANGED <<text, parserVars>>

\* variant: the lines before the marker are returned without filtering
extract_context_unfiltered(t, marker, n) ==
    LET ls        == Split(t)
        start_idx == IF marker.start_line - n > 0 THEN marker.start_line - n
                     ELSE 0
    IN  Join(Slice(ls, start_idx, marker.start_line))

\* extract_context(text, marker, context_lines), lines 136-150
extract_context(t, marker, n) ==
    LET ls        == Split(t)
        start_idx == IF marker.start_line - n > 0 THEN marker.start_line - n
                     ELSE 0
        context_lines_text == Slice(ls, start_idx, marker.start_line)
        context   == SelectSeq(context_lines_text,
                        LAMBDA line : /\ Strip(line) # <<>>
                                      /\ ~StartMatch(Strip(line))
                                      /\ ~EndMatch(Strip(line)))
    IN  Join(context)

MaxContext == 3

\* a call of extract_context on the parsed text for one of its markers
extract_context_call ==
    /\ UNCHANGED nonContext
    /\ pc = "parsed"
    /\ \E k \in 1..Len(markers), n \in 0..MaxContext :
          context_call' = Some([marker        |-> markers[k],
                                context_lines |-> n,
                                result        |-> extract_context(text, markers[k], n)])
    /\ pc' = "context_extracted"
    /\ UNCHANGED <<text, parserVars>>

parse_markers ==
    \/ parse_begin
    \/ TrackHeading
    \/ StartMarker
    \/ SkipLine
    \/ EndFound
    \/ Accumulate
    \/ EndMissing
    \/ parse_return

-----------------------------------------------------------------------------
(* MarkerParser.replace_marker_with_content and replace_all_markers *)

\* variant: the slice after the region starts at end_line, not end_line + 1
replace_marker_keeps_closer(t, marker, new_content) ==
    LET ls     == Split(t)
        before == Slice(ls, 0, marker.start_line)
        after  == Slice(ls, marker.end_line, Len(ls))
    IN  Join(before \o <<new_content>> \o after)

\* lines 180-189
replace_marker_with_content(t, marker, new_content) ==
    LET ls     == Split(t)
        before == Slice(ls, 0, marker.start_line)
        after  == Slice(ls, marker.end_line + 1, Len(ls))
    IN  Join(before \o <<new_content>> \o after)

\* list.insert keeping descending start_line, after the entries that compare
\* greater or equal (sorted is stable, also with reverse=True)
RECURSIVE InsertDesc(_, _)
InsertDesc(sorted, x) ==
    IF sorted = <<>> THEN <<x>>
    ELSE IF Head(sorted)[1].start_line >= x[1].start_line
         THEN <<Head(sorted)>> \o InsertDesc(Tail(sorted), x)
         ELSE <<x>> \o sorted

RECURSIVE SortFrom(_, _)
SortFrom(exps, acc) ==
    IF exps = <<>> THEN acc
    ELSE SortFrom(Tail(exps), InsertDesc(acc, Head(exps)))

\* variant: the pairs are applied in the order supplied
UnsortedExpansions(exps) == exps

\* sorted(expansions, key=lambda x: x[0].start_line, reverse=True)
SortedByStartDesc(exps) == SortFrom(exps, <<>>)

\* lines 208-212
replace_begin ==
    /\ pc = "replace"
    /\ sorted_expansions' = SortedByStartDesc(replacements)
    /\ result' = text
    /\ pc' = "replace_loop"
    /\ UNCHANGED <<text, parserVars, replacements, expanded_text>>
    /\ UNCHANGED nonReplace

\* lines 213-214
replace_step ==
    /\ pc = "replace_loop"
    /\ sorted_expansions # <<>>
    /\ result' = replace_marker_with_content(result,
                     Head(sorted_expansions)[1], Head(sorted_expansions)[2])
    /\ sorted_expansions' = Tail(sorted_expansions)
    /\ UNCHANGED <<pc, text, parserVars, replacements, expanded_text>>
    /\ UNCHANGED nonReplace

\* line 216
replace_return ==
    /\ pc = "replace_loop"
    /\ sorted_expansions = <<>>
    /\ expanded_text' = result
    /\ pc' = "replaced"
    /\ UNCHANGED <<text, parserVars, replacements, sorted_expansions, result>>
    /\ UNCHANGED nonReplace

\* the whole of replace_all_markers as a function of its arguments
RECURSIVE ApplyAll(_, _)
ApplyAll(t, sorted) ==
    IF sorted = <<>> THEN t
    ELSE ApplyAll(replace_marker_with_content(t, Head(sorted)[1], Head(sorted)[2]),
                  Tail(sorted))

replace_all_markers(t, exps) == ApplyAll(t, SortedByStartDesc(exps))

ReplaceIdle ==
    /\ replacements = <<>>
    /\ sorted_expansions = <<>>
    /\ result = <<>>
    /\ expanded_text = <<>>

-----------------------------------------------------------------------------
(* Documents handed to parse_markers *)

LineText      == <<"w">>
LineH1        == <<"#", " ", "T">>
LineH2        == <<"#", "#", " ", "S">>
OpenExpand    == <<"<!--", " ", "ACADWRITE:", " ", "expand", " ", "-->">>
OpenEvidence  == <<"<!--", " ", "acadwrite:", " ", "EVIDENCE", " ",
                   "type", "=", "graph", " ", "-->">>
OpenCitations == <<" ", "<!--", "ACADWRITE:", "Citations", "-->", " ", "w">>
OpenClarity   == <<"<!--", " ", "ACADWRITE:", " ", "clarity", " ", "-->">>
OpenContradict == <<"<!--", " ", "ACADWRITE:", " ", "CONTRADICT", " ", "-->">>
OpenUnknown   == <<"<!--", " ", "ACADWRITE:", " ", "Summary", " ", "-->">>
LineClose     == <<"<!--", " ", "END", " ", "ACADWRITE", " ", "-->">>
LineCloseLow  == <<" ", "<!--", "end", " ", "acadwrite", "-->">>

Closers == {LineClose, LineCloseLow}

ParseLines == {LineText, LineH1, LineH2, OpenEvidence, OpenCitations,
               OpenUnknown} \cup Closers

DocsOver(L, n) == UNION {[1..k -> L] : k \in 1..n}

ParserIdle ==
    /\ lines = <<>>
    /\ i = 0
    /\ markers = <<>>
    /\ current_heading = None
    /\ current_heading_level = 1
    /\ start_line = 0
    /\ content_lines = <<>>
    /\ operation = "expand"
    /\ params = EmptyDict

ExpandIdle ==
    /\ llm = FALSE
    /\ default_search_type = None
    /\ default_answer_format = None
    /\ expansions = <<>>
    /\ outcomes = <<>>
    /\ call_log = <<>>

DocIdle ==
    /\ fileintel = FALSE
    /\ doc_operation = ""
    /\ chunks = <<>>
    /\ processed_chunks = <<>>
    /\ processed_doc = None
    /\ doc_error = None

CounterIdle ==
    /\ include_synthesis = FALSE
    /\ supporting_response = [answer |-> <<>>, sources |-> <<>>]
    /\ inverted_claim = <<>>
    /\ contradicting_response = [answer |-> <<>>, sources |-> <<>>]
    /\ gen_report = None
    /\ gen_error = None

ChunkerIdle ==
    /\ max_tokens = 0
    /\ sections = <<>>
    /\ section_index = 0

ContextIdle == context_call = None

ClientIdle ==
    /\ _client = None
    /\ connections = <<>>
    /\ client_log = <<>>

ChapterIdle ==
    /\ outline = <<>>
    /\ continue_on_error = TRUE
    /\ chapter_sections = <<>>
    /\ chapter_context = <<>>
    /\ next_item = 1
    /\ generate_calls = <<>>
    /\ chapter = None
    /\ chapter_error = None

SentenceIdle ==
    cleaned_sentences = <<>>

vars == <<pc, text, parserVars, replaceVars, expandVars, docVars, counterVars,
          chunkerVars, context_call,
    sentenceVars,
    chapterVars,
    clientVars>>

InitParse ==
    /\ pc = "parse"
    /\ \E d \in DocsOver(ParseLines, MaxLines) : text = Join(d)
    /\ ParserIdle
    /\ ReplaceIdle
    /\ ExpandIdle
    /\ DocIdle
    /\ CounterIdle
    /\ ChunkerIdle
    /\ ContextIdle
    /\ SentenceIdle
    /\ ChapterIdle
    /\ ClientIdle

NextParse ==
    \/ parse_begin
    \/ TrackHeading
    \/ StartMarker
    \/ SkipLine
    \/ EndFound
    \/ Accumulate
    \/ EndMissing
    \/ parse_return

\* an empty line and a line of white space
LineBlank == <<>>

LineSpace == <<" ">>

ContextLines == {LineText, LineH2, LineBlank, LineSpace, OpenEvidence,
                 OpenCitations, LineClose}

InitContext ==
    /\ pc = "parse"
    /\ \E d \in DocsOver(ContextLines, MaxLines) : text = Join(d)
    /\ ParserIdle
    /\ ReplaceIdle
    /\ ExpandIdle
    /\ DocIdle
    /\ CounterIdle
    /\ ChunkerIdle
    /\ ContextIdle
    /\ SentenceIdle
    /\ ChapterIdle
    /\ ClientIdle

NextContext ==
    \/ parse_begin
    \/ TrackHeading
    \/ StartMarker
    \/ SkipLine
    \/ EndFound
    \/ Accumulate
    \/ EndMissing
    \/ parse_return
    \/ extract_context_call

SpecContext == InitContext /\ [][NextContext]_vars

SpecParse == InitParse /\ [][NextParse]_vars

-----------------------------------------------------------------------------
(* replace_all_markers on regions of one document, supplied in any order *)

ReplLines == {<<"x">>, <<>>}

ReplContents == {<<"A">>, <<"A", NL, "B">>, <<>>}

RegionMarker(a, b) ==
    [operation     |-> "expand",
     start_line    |-> a,
     end_line      |-> b,
     content       |-> <<>>,
     heading       |-> None,
     heading_level |-> 1,
     params        |-> EmptyDict]

Regions(n) ==
    UNION {{RegionMarker(a, b) : b \in a..(n - 1)} : a \in 0..(n - 1)}

Disjoint(exps) ==
    \A j, k \in 1..Len(exps) :
        j # k => \/ exps[j][1].end_line < exps[k][1].start_line
                 \/ exps[k][1].end_line < exps[j][1].start_line

InitReplace ==
    /\ pc = "replace"
    /\ \E d \in DocsOver(ReplLines, MaxReplLines) :
          /\ text = Join(d)
          /\ \E k \in 0..MaxReplacements :
                \E exps \in [1..k -> Regions(Len(d)) \X ReplContents] :
                    /\ Disjoint(exps)
                    /\ replacements = exps
    /\ ParserIdle
    /\ sorted_expansions = <<>>
    /\ result = <<>>
    /\ expanded_text = <<>>
    /\ ExpandIdle
    /\ DocIdle
    /\ CounterIdle
    /\ ChunkerIdle
    /\ ContextIdle
    /\ SentenceIdle
    /\ ChapterIdle
    /\ ClientIdle

NextReplace ==
    \/ replace_begin
    \/ replace_step
    \/ replace_return

SpecReplace == InitReplace /\ [][NextReplace]_vars

-----------------------------------------------------------------------------
(* Collaborators of MarkerExpander: FileIntelClient.query, LLMClient and     *)
(* CounterargumentGenerator.  A call either raises or returns; what it       *)
(* returns is drawn from a small set.                                        *)

Raise(msg, empty) == [raised |-> TRUE, exc |-> msg, value |-> empty]

Return(v) == [raised |-> FALSE, exc |-> <<>>, value |-> v]

\* QueryResponse.sources: n sources, each with its text, its citation and the
\* metadata of its document; only the first has authors, date and page
Sources(n) ==
    [j \in 1..n |->
        [text             |-> <<"s">>,
         citation         |-> <<"r">>,
         authors          |-> IF j = 1 THEN <<"Smith">> ELSE <<>>,
         publication_date |-> IF j = 1 THEN "2020" ELSE "",
         page_number      |-> IF j = 1 THEN "3" ELSE ""]]

EmptyResponse == [answer |-> <<>>, sources |-> <<>>]

BlankResponse == [answer |-> <<" ", NL>>, sources |-> Sources(1)]

FullResponse == [answer |-> <<"A", NL, "B">>, sources |-> Sources(6)]

RagResponses == {EmptyResponse, BlankResponse, FullResponse}

\* str(e) of the FileIntelError raised by FileIntelClient.query
RagError == <<"Cannot connect to FileIntel">>

RagOutcomes == {Raise(RagError, EmptyResponse)} \cup {Return(r) : r \in RagResponses}

\* the two queries of CounterargumentGenerator.generate
GenRagOutcomes == {Raise(RagError, EmptyResponse), Return(FullResponse)}

\* chat.completions.create: raises, or message.content
LlmError == <<"Connection error.">>

LlmOutcomes == {Raise(LlmError, <<>>), Return(<<>>), Return(<<" ">>),
                Return(<<" ", "q">>)}

\* one entry of call_log
Call(k, to, question, search_type, answer_format, o, answer) ==
    [marker        |-> k,
     to            |-> to,
     question      |-> question,
     search_type   |-> search_type,
     answer_format |-> answer_format,
     raised        |-> o.raised,
     exc           |-> o.exc,
     answer        |-> answer]

\* LLMClient.invert_claim on the outcome o of its completion call
invert_claim(o) ==
    IF o.raised
    THEN Raise(<<"Failed to invert claim: ">> \o o.exc, <<>>)
    ELSE IF o.value # <<>>
         THEN Return(Strip(o.value))
         ELSE Raise(<<"Failed to invert claim: ", "LLM returned empty response">>,
                    <<>>)

\* CounterargumentGenerator._build_evidence_list: one Evidence per source
_build_evidence_list(response) ==
    [j \in 1..Len(response.sources) |-> [source |-> response.sources[j]]]

\* CounterargumentGenerator._synthesize on the outcome o of its completion
\* call; an exception of the call is not caught
_synthesize(o) ==
    IF o.raised THEN Raise(o.exc, <<>>)
    ELSE IF o.value # <<>> THEN Return(Strip(o.value))
    ELSE Return(<<"Unable to generate synthesis.">>)

NoReport ==
    [original_claim         |-> <<>>,
     inverted_claim         |-> <<>>,
     supporting_evidence    |-> <<>>,
     contradicting_evidence |-> <<>>,
     synthesis              |-> <<>>]

\* CounterargumentGenerator.generate(claim, include_synthesis=True) for marker
\* k when its four awaits end as sc.rag1, sc.inv, sc.rag2, sc.syn; calls are
\* the collaborator calls made before it raised or returned
generate(k, claim, sc) ==
    LET c1  == Call(k, "fileintel.query", claim, <<"vector">>, <<"default">>,
                    sc.rag1, sc.rag1.value.answer)
        inv == invert_claim(sc.inv)
        c2  == Call(k, "llm.invert_claim", claim, <<>>, <<>>, inv, inv.value)
        c3  == Call(k, "fileintel.query", inv.value, <<"vector">>, <<"default">>,
                    sc.rag2, sc.rag2.value.answer)
        syn == _synthesize(sc.syn)
        c4  == Call(k, "llm.chat.completions", claim, <<>>, <<>>, syn, syn.value)
    IN  IF sc.rag1.raised
        THEN [raised |-> TRUE, exc |-> sc.rag1.exc, report |-> NoReport,
              calls |-> <<c1>>]
        ELSE IF inv.raised
        THEN [raised |-> TRUE, exc |-> inv.exc, report |-> NoReport,
              calls |-> <<c1, c2>>]
        ELSE IF sc.rag2.raised
        THEN [raised |-> TRUE, exc |-> sc.rag2.exc, report |-> NoReport,
              calls |-> <<c1, c2, c3>>]
        ELSE IF syn.raised
        THEN [raised |-> TRUE, exc |-> syn.exc, report |-> NoReport,
              calls |-> <<c1, c2, c3, c4>>]
        ELSE [raised |-> FALSE, exc |-> <<>>,
              report |->
                [original_claim         |-> claim,
                 inverted_claim         |-> inv.value,
                 supporting_evidence    |-> _build_evidence_list(sc.rag1.value),
                 contradicting_evidence |-> _build_evidence_list(sc.rag2.value),
                 synthesis              |-> syn.value],
              calls |-> <<c1, c2, c3, c4>>]

CounterScenarios ==
    [rag1 : GenRagOutcomes, inv : LlmOutcomes, rag2 : GenRagOutcomes,
     syn : LlmOutcomes]

-----------------------------------------------------------------------------
(* MarkerExpander *)

\* dict.get(key, default)
ParamGet(d, key, default) == IF key \in DOMAIN d THEN d[key] ELSE default

\* truth value of an Optional[str] argument
Truthy(x) == x # None /\ x.val # <<>>

\* variant: the defaults replace the parameters the marker was written with
WithDefaultsOverwriting(marker, search_type, answer_format) ==
    LET p1 == IF Truthy(search_type)
              THEN DictSet(marker.params, <<"type">>, search_type.val)
              ELSE marker.params
        p2 == IF Truthy(answer_format)
              THEN DictSet(p1, <<"format">>, answer_format.val)
              ELSE p1
    IN  [marker EXCEPT !.params = p2]

\* expand_file lines 81-84 for one marker
WithDefaults(marker, search_type, answer_format) ==
    LET p1 == IF /\ Truthy(search_type)
                 /\ <<"type">> \notin DOMAIN marker.params
                 /\ <<"search_type">> \notin DOMAIN marker.params
              THEN DictSet(marker.params, <<"type">>, search_type.val)
              ELSE marker.params
        p2 == IF /\ Truthy(answer_format)
                 /\ <<"format">> \notin DOMAIN p1
                 /\ <<"answer_format">> \notin DOMAIN p1
              THEN DictSet(p1, <<"format">>, answer_format.val)
              ELSE p1
    IN  [marker EXCEPT !.params = p2]

\* the names of the fields of Settings().writing
WritingSettingsFields ==
    {"citation_style", "markdown_dialect", "include_relevance_scores"}

\* ExpandedContent(marker=..., generated_content=..., citations=..., success=True)
Succeeded(marker, content, citations) ==
    [marker            |-> marker,
     generated_content |-> content,
     citations         |-> citations,
     success           |-> TRUE,
     error_message     |-> None]

\* variant: a failed result that carries no error message
FailedWithoutMessage(marker, content, msg) ==
    [marker            |-> marker,
     generated_content |-> content,
     citations         |-> <<>>,
     success           |-> FALSE,
     error_message     |-> None]

\* ExpandedContent(marker=..., generated_content=..., success=False, error_message=...)
Failed(marker, content, msg) ==
    [marker            |-> marker,
     generated_content |-> content,
     citations         |-> <<>>,
     success           |-> FALSE,
     error_message     |-> Some(msg)]

\* variant: the answer is only tested for being the empty string
AnswerIsEmpty(answer) == answer = <<>>

\* not response.answer or not response.answer.strip()
AnswerIsBlank(answer) == answer = <<>> \/ Strip(answer) = <<>>

\* Citation(id=i + 1, ..., full_citation=source.citation) for sources[:n]
CitationsOf(sources, n) ==
    [j \in 1..Len(Slice(sources, 0, n)) |->
        [id |-> j, full_citation |-> sources[j].citation]]

\* str(i) followed by "."
Ordinal(j) == CASE j = 1 -> "1." [] j = 2 -> "2." [] OTHER -> "3."

\* the three lines _expand_contradict adds per piece of evidence
RECURSIVE EvidenceParts(_, _)
EvidenceParts(evidence, j) ==
    IF j > Len(evidence) THEN <<>>
    ELSE << <<Ordinal(j), " ">> \o evidence[j].source.text,
            <<" ", " ", " ", "-", " ">> \o evidence[j].source.citation,
            <<>> >>
         \o EvidenceParts(evidence, j + 1)

\* lines 375-386
ContradictContent(marker, report) ==
    Join(<<marker.content, <<>>, <<"**Contradicting Evidence:**">>, <<>>>>
         \o EvidenceParts(Slice(report.contradicting_evidence, 0, 3), 1)
         \o (IF report.synthesis # <<>>
             THEN <<<<"**Analysis:**">>, report.synthesis>>
             ELSE <<>>))

\* lines 389-405
ContradictCitations(report) ==
    [j \in 1..Len(Slice(report.contradicting_evidence, 0, 3)) |->
        [id |-> j,
         full_citation |-> report.contradicting_evidence[j].source.citation]]

\* variant: a caught exception leaves no result behind
DropCaught(exps, marker, msg) == exps

\* lines 112-123: the except branch of the loop body
AppendCaught(exps, marker, msg) == Append(exps, Failed(marker, <<>>, msg))

\* variant: every expansion is handed to replace_all_markers
AllReplacements(exps) ==
    [j \in 1..Len(exps) |-> <<exps[j].marker, exps[j].generated_content>>]

\* lines 126-130: the (marker, content) pairs of the successful expansions
SuccessfulReplacements(exps) ==
    LET sel == SelectSeq(exps, LAMBDA e : e.success)
    IN  [j \in 1..Len(sel) |-> <<sel[j].marker, sel[j].generated_content>>]

\* the methods of LLMClient
LLMClientMethods == {"invert_claim", "close"}

\* expand_marker lines 152-153: the context of the marker, taken from the
\* full_text the loop of expand_file passes, which is original_text
MarkerContext(marker) == extract_context(text, marker, 10)

\* expand_marker raised e: lines 112-123
Caught(marker, msg) ==
    /\ expansions' = AppendCaught(expansions, marker, msg)
    /\ outcomes' = Append(outcomes, [raised  |-> TRUE, exc |-> msg,
                                     context |-> MarkerContext(marker)])

\* expand_marker returned ec: lines 105-106
Returned(ec) ==
    /\ expansions' = Append(expansions, ec)
    /\ outcomes' = Append(outcomes, [raised  |-> FALSE, exc |-> <<>>,
                                     context |-> MarkerContext(ec.marker)])

\* lines 74-76
no_markers ==
    /\ UNCHANGED nonExpand
    /\ pc = "parsed"
    /\ markers = <<>>
    /\ expanded_text' = text
    /\ pc' = "returned"
    /\ UNCHANGED <<text, parserVars, replacements, sorted_expansions, result,
                   expandVars>>

\* lines 79-91: the defaults are written into the params of the markers
apply_defaults ==
    /\ UNCHANGED nonExpand
    /\ pc = "parsed"
    /\ markers # <<>>
    /\ markers' = [k \in 1..Len(markers) |->
                      WithDefaults(markers[k], default_search_type,
                                   default_answer_format)]
    /\ expansions' = <<>>
    /\ pc' = "expand_loop"
    /\ UNCHANGED <<text, lines, i, current_heading, current_heading_level,
                   start_line, content_lines, operation, params, replaceVars,
                   llm, default_search_type, default_answer_format, outcomes,
                   call_log>>

\* variant: the loop runs over the markers from the last to the first
CurrentMarkerReversed == markers[Len(markers) - Len(outcomes)]

\* the marker the loop of lines 98-123 is at; outcomes holds one entry per
\* marker already attempted
CurrentMarker == markers[Len(outcomes) + 1]

\* ", ".join(topics)
RECURSIVE JoinTopics(_)
JoinTopics(topics) ==
    IF topics = <<>> THEN <<>>
    ELSE IF Len(topics) = 1 THEN topics[1]
    ELSE topics[1] \o <<", ">> \o JoinTopics(Tail(topics))

\* _build_query_from_marker lines 421-429: the topics of the bullet lines
BulletTopics(content) ==
    LET stripped == [j \in 1..Len(Split(content)) |-> Strip(Split(content)[j])]
        bullets  == SelectSeq(stripped,
                       LAMBDA line : line # <<>> /\ Head(line) \in {"-", "*"})
    IN  [j \in 1..Len(bullets) |->
            Strip(Drop(bullets[j], LeadCount(bullets[j], {"-", "*"})))]

\* _build_query_from_marker, lines 411-438
_build_query_from_marker(marker) ==
    LET topics == BulletTopics(marker.content)
    IN  IF topics # <<>>
        THEN IF Truthy(marker.heading)
             THEN marker.heading.val \o <<": ">> \o JoinTopics(topics)
             ELSE JoinTopics(topics)
        ELSE Slice(marker.content, 0, 200)

\* lines 169-184 inside the try of line 104: the default argument of
\* params.get reads settings.writing.max_words_per_section, which no
\* WritingSettings has, so the handler raises before SectionGenerator.generate
\* (lines 187-202) is called
_expand_generate ==
    /\ UNCHANGED nonExpand
    /\ pc = "expand_loop"
    /\ Len(outcomes) < Len(markers)
    /\ CurrentMarker.operation = "expand"
    /\ "max_words_per_section" \notin WritingSettingsFields
    /\ Caught(CurrentMarker,
              <<"'WritingSettings' object has no attribute 'max_words_per_section'">>)
    /\ UNCHANGED <<pc, text, parserVars, replaceVars, llm, default_search_type,
                   default_answer_format, call_log>>

\* lines 204-261 inside the try of line 104
_expand_evidence ==
    /\ UNCHANGED nonExpand
    /\ pc = "expand_loop"
    /\ Len(outcomes) < Len(markers)
    /\ CurrentMarker.operation = "evidence"
    /\ \E o \in RagOutcomes :
          LET marker        == CurrentMarker
              query_text    == Slice(marker.content, 0, 200)
              search_type   == ParamGet(marker.params, <<"type">>,
                                  ParamGet(marker.params, <<"search_type">>,
                                           <<"adaptive">>))
              answer_format == ParamGet(marker.params, <<"format">>,
                                  ParamGet(marker.params, <<"answer_format">>,
                                           <<"default">>))
              response      == o.value
          IN  /\ call_log' = Append(call_log,
                    Call(Len(outcomes) + 1, "fileintel.query", query_text,
                         search_type, answer_format, o, response.answer))
              /\ IF o.raised
                 THEN Caught(marker, o.exc)
                 ELSE IF AnswerIsBlank(response.answer)
                 THEN Returned(Failed(marker, marker.content,
                         <<"FileIntel returned empty response - no evidence found">>))
                 ELSE Returned(Succeeded(marker,
                         marker.content \o <<NL, NL>> \o response.answer \o <<NL>>,
                         CitationsOf(response.sources, 5)))
    /\ UNCHANGED <<pc, text, parserVars, replaceVars, llm, default_search_type,
                   default_answer_format>>

\* lines 263-321 inside the try of line 104
_expand_citations ==
    /\ UNCHANGED nonExpand
    /\ pc = "expand_loop"
    /\ Len(outcomes) < Len(markers)
    /\ CurrentMarker.operation = "citations"
    /\ \E o \in RagOutcomes :
          LET marker        == CurrentMarker
              query_text    == marker.content
              search_type   == ParamGet(marker.params, <<"type">>,
                                  ParamGet(marker.params, <<"search_type">>,
                                           <<"adaptive">>))
              answer_format == ParamGet(marker.params, <<"format">>,
                                  ParamGet(marker.params, <<"answer_format">>,
                                           <<"default">>))
              response      == o.value
          IN  /\ call_log' = Append(call_log,
                    Call(Len(outcomes) + 1, "fileintel.query", query_text,
                         search_type, answer_format, o, response.answer))
              /\ IF o.raised
                 THEN Caught(marker, o.exc)
                 ELSE IF AnswerIsBlank(response.answer)
                 THEN Returned(Failed(marker, marker.content,
                         <<"FileIntel returned empty response - no citations found">>))
                 ELSE Returned(Succeeded(marker, response.answer,
                         CitationsOf(response.sources, 3)))
    /\ UNCHANGED <<pc, text, parserVars, replaceVars, llm, default_search_type,
                   default_answer_format>>

\* lines 323-347 inside the try of line 104: LLMClient has no method generate,
\* so line 343 raises AttributeError whenever an LLM client is present
_expand_clarity ==
    /\ UNCHANGED nonExpand
    /\ pc = "expand_loop"
    /\ Len(outcomes) < Len(markers)
    /\ CurrentMarker.operation = "clarity"
    /\ "generate" \notin LLMClientMethods
    /\ IF ~llm
       THEN Returned(Failed(CurrentMarker, CurrentMarker.content,
               <<"LLM client required for clarity operation">>))
       ELSE Caught(CurrentMarker,
               <<"'LLMClient' object has no attribute 'generate'">>)
    /\ UNCHANGED <<pc, text, parserVars, replaceVars, llm, default_search_type,
                   default_answer_format, call_log>>

\* lines 349-409 inside the try of line 104
_expand_contradict ==
    /\ UNCHANGED nonExpand
    /\ pc = "expand_loop"
    /\ Len(outcomes) < Len(markers)
    /\ CurrentMarker.operation = "contradict"
    /\ IF ~llm
       THEN /\ Returned(Failed(CurrentMarker, CurrentMarker.content,
                  <<"LLM client required for contradict operation">>))
            /\ UNCHANGED call_log
       ELSE \E sc \in CounterScenarios :
               LET marker == CurrentMarker
                   g      == generate(Len(outcomes) + 1, marker.content, sc)
               IN  /\ call_log' = call_log \o g.calls
                   /\ IF g.raised
                      THEN Caught(marker, g.exc)
                      ELSE Returned(Succeeded(marker,
                              ContradictContent(marker, g.report),
                              ContradictCitations(g.report)))
    /\ UNCHANGED <<pc, text, parserVars, replaceVars, llm, default_search_type,
                   default_answer_format>>

\* lines 125-137 up to the call of replace_all_markers
build_replacements ==
    /\ UNCHANGED nonExpand
    /\ pc = "expand_loop"
    /\ Len(outcomes) = Len(markers)
    /\ replacements' = SuccessfulReplacements(expansions)
    /\ IF replacements' # <<>>
       THEN /\ pc' = "replace"
            /\ UNCHANGED expanded_text
       ELSE /\ expanded_text' = text
            /\ pc' = "returned"
    /\ UNCHANGED <<text, parserVars, sorted_expansions, result, expandVars>>

\* line 137 after replace_all_markers returned
expand_return ==
    /\ UNCHANGED nonExpand
    /\ pc = "replaced"
    /\ pc' = "returned"
    /\ UNCHANGED <<text, parserVars, replaceVars, expandVars>>

expand_file ==
    \/ parse_markers
    \/ no_markers
    \/ apply_defaults
    \/ _expand_generate
    \/ _expand_evidence
    \/ _expand_citations
    \/ _expand_clarity
    \/ _expand_contradict
    \/ build_replacements
    \/ replace_begin
    \/ replace_step
    \/ replace_return
    \/ expand_return

-----------------------------------------------------------------------------
(* expand_file on documents built from blocks *)

MaxBlocks == 2

BulletLine == <<"-", " ", "w">>

ContentLine == <<"c">>

IndentedLine == <<" ", "c">>

ExpandBlocks ==
    {<<LineH2>>,
     <<LineText>>,
     <<OpenUnknown>>,
     <<OpenExpand, BulletLine, LineClose>>,
     <<OpenEvidence, ContentLine, LineClose>>,
     <<OpenCitations, IndentedLine, LineCloseLow>>,
     <<OpenClarity, ContentLine, LineClose>>,
     <<OpenContradict, ContentLine, LineClose>>}

RECURSIVE Flatten(_)
Flatten(bs) == IF bs = <<>> THEN <<>> ELSE Head(bs) \o Flatten(Tail(bs))

DefaultPairs == {<<None, None>>, <<Some(<<"vector">>), Some(<<"table">>)>>}

InitExpand ==
    /\ pc = "parse"
    /\ \E bs \in DocsOver(ExpandBlocks, MaxBlocks) : text = Join(Flatten(bs))
    /\ ParserIdle
    /\ ReplaceIdle
    /\ llm \in BOOLEAN
    /\ \E d \in DefaultPairs :
          /\ default_search_type = d[1]
          /\ default_answer_format = d[2]
    /\ expansions = <<>>
    /\ outcomes = <<>>
    /\ call_log = <<>>
    /\ DocIdle
    /\ CounterIdle
    /\ ChunkerIdle
    /\ ContextIdle
    /\ SentenceIdle
    /\ ChapterIdle
    /\ ClientIdle

NextExpand ==
    \/ parse_begin
    \/ TrackHeading
    \/ StartMarker
    \/ SkipLine
    \/ EndFound
    \/ Accumulate
    \/ EndMissing
    \/ parse_return
    \/ no_markers
    \/ apply_defaults
    \/ _expand_generate
    \/ _expand_evidence
    \/ _expand_citations
    \/ _expand_clarity
    \/ _expand_contradict
    \/ build_replacements
    \/ replace_begin
    \/ replace_step
    \/ replace_return
    \/ expand_return

SpecExpand == InitExpand /\ [][NextExpand]_vars

-----------------------------------------------------------------------------
(* MarkdownChunker._split_into_sentences and the text helpers of            *)
(* DocumentProcessor.  A token is a word, a number, a punctuation mark or a *)
(* run of white space.                                                       *)

Terminators == {".", "?", "!"}

\* tokens that begin with a capital letter
Capitalised ==
    {"Plain", "Growth", "Research shows", "Smith", "T", "W", "D", "P", "M"}

\* tokens of the shape \w\.\w and two-letter tokens [A-Z][a-z]: a full stop
\* after one of them is excluded by the two negative lookbehinds
NoBreakBefore == {"0.5", "e.g", "Dr"}

\* one-character tokens: [A-Z], [a-z]
UpperChars == {"T", "W", "D", "P", "M"}

LowerChars == {"w", "r", "o", "f", "e", "g", "s"}

\* the first lookbehind, (?<!\w\.\w.), on one-character tokens
AfterDottedPair(t, p) ==
    /\ p > 4
    /\ t[p - 2] \in UpperChars \cup LowerChars
    /\ t[p - 3] = "."
    /\ t[p - 4] \in UpperChars \cup LowerChars

\* the second lookbehind, (?<![A-Z][a-z]\.), on one-character tokens
AfterShortName(t, p) ==
    /\ p > 3
    /\ t[p - 1] = "."
    /\ t[p - 2] \in LowerChars
    /\ t[p - 3] \in UpperChars

\* the pattern of line 392 matches the white space that starts at position p
SentenceBreakAt(t, p) ==
    /\ p > 1
    /\ p <= Len(t)
    /\ t[p] \in Whitespace
    /\ t[p - 1] \in Terminators
    /\ ~(p > 2 /\ t[p - 2] \in NoBreakBefore)
    /\ ~AfterDottedPair(t, p)
    /\ ~AfterShortName(t, p)
    /\ LET rest == LStrip(Drop(t, p - 1))
       IN  rest # <<>> /\ Head(rest) \in Capitalised

\* re.split(pattern, text)
RECURSIVE SentencePieces(_, _, _)
SentencePieces(t, p, cur) ==
    IF p > Len(t) THEN <<cur>>
    ELSE IF SentenceBreakAt(t, p)
    THEN <<cur>> \o SentencePieces(LStrip(Drop(t, p - 1)), 1, <<>>)
    ELSE SentencePieces(t, p + 1, Append(cur, t[p]))

\* lines 394-403: the pieces stripped, the empty ones left out
_split_into_sentences(t) ==
    LET pieces   == SentencePieces(t, 1, <<>>)
        stripped == [j \in 1..Len(pieces) |-> Strip(pieces[j])]
    IN  SelectSeq(stripped, LAMBDA x : x # <<>>)

PercentTokens == {"50%"}

DecimalTokens == {"0.5"}

ClaimPhrases == {"research shows", "studies indicate", "has been shown",
                 "is known"}

\* lines 413-423 for one sentence
IsClaim(sentence) ==
    \/ \E p \in 1..Len(sentence) :
          \/ sentence[p] \in PercentTokens
          \/ sentence[p] \in DecimalTokens
          \/ LowerTok(sentence[p]) \in ClaimPhrases
    \/ \E p \in 1..(Len(sentence) - 4) :
          /\ LowerTok(sentence[p]) \in {"better", "faster", "more", "less"}
          /\ sentence[p + 1] \in Whitespace
          /\ sentence[p + 2] \notin NonWord
          /\ sentence[p + 3] \in Whitespace
          /\ LowerTok(sentence[p + 4]) = "than"

\* lines 399-426
_extract_claims(t) == SelectSeq(_split_into_sentences(t), IsClaim)

\* str.find: 0-based position of the first occurrence of sub in t, or -1
RECURSIVE FindFrom(_, _, _)
FindFrom(t, sub, p) ==
    IF p + Len(sub) > Len(t) THEN -1
    ELSE IF SubSeq(t, p + 1, p + Len(sub)) = sub THEN p
    ELSE FindFrom(t, sub, p + 1)

\* str.replace(old, new, 1)
ReplaceFirst(t, old, new) ==
    LET p == FindFrom(t, old, 0)
    IN  IF p = -1 THEN t
        ELSE Slice(t, 0, p) \o new \o Drop(t, p + Len(old))

YearTokens == {"2020", "n.d."}

FootnoteTokens == {"[^1]"}

\* lines 428-447
_has_citation(claim, t) ==
    LET claim_pos == FindFrom(t, claim, 0)
        window    == Slice(t, claim_pos, claim_pos + Len(claim) + 50)
    IN  /\ claim_pos # -1
        /\ \/ \E p \in 1..(Len(window) - 3) :
                 /\ window[p] = "["
                 /\ window[p + 1] \notin {"[", "]", ",", ", "}
                 /\ window[p + 2] = ", "
                 /\ window[p + 3] \in YearTokens
           \/ \E p \in 1..Len(window) : window[p] \in FootnoteTokens

\* lines 449-466
_format_inline_citation(source) ==
    LET author == IF source.authors # <<>> THEN source.authors[1] ELSE "Unknown"
        year   == IF source.publication_date # ""
                  THEN source.publication_date ELSE "n.d."
        page   == IF source.page_number # ""
                  THEN <<", p. ", source.page_number>> ELSE <<>>
    IN  <<"[", author, ", ", year>> \o page \o <<"]">>

-----------------------------------------------------------------------------
(* DocumentProcessor *)

KnownOperations ==
    {"find_citations", "add_evidence", "improve_clarity", "find_contradictions"}

\* ProcessedChunk(original=..., processed_text=..., operation=...)
ProcessedChunk(chunk, processed_text, op) ==
    [original         |-> chunk,
     processed_text   |-> processed_text,
     operation        |-> op,
     citations_added  |-> <<>>,
     evidence_added   |-> <<>>,
     improvements     |-> <<>>,
     contradictions   |-> <<>>]

\* the outcomes of the collaborator calls of one chunk
DocRagOutcomes ==
    {Raise(RagError, EmptyResponse), Return(EmptyResponse), Return(FullResponse)}

DocLlmOutcomes == {Raise(LlmError, <<>>), Return(<<>>), Return(<<" ", "q">>)}

\* variant: the check for a missing client is left out
MissingIgnored(client) == FALSE

\* not self.fileintel, not self.llm
Missing(client) == ~client

\* lines 159-214: the loop over the claims from claim j on; os[j] is how the
\* query for claim j ends; acc holds processed_text, citations_added and the
\* calls made
RECURSIVE FindCitationsFrom(_, _, _, _, _, _)
FindCitationsFrom(k, chunk, claims, os, j, acc) ==
    IF j > Len(claims) THEN acc
    ELSE LET claim    == claims[j]
             question == IF chunk.context # <<>>
                         THEN chunk.context \o <<": ">> \o claim
                         ELSE claim
             o        == os[j]
             citation == _format_inline_citation(o.value.sources[1])
             call     == Call(k, "fileintel.query", question, <<"adaptive">>,
                              <<"default">>, o, o.value.answer)
         IN  IF _has_citation(claim, chunk.text)
             THEN FindCitationsFrom(k, chunk, claims, os, j + 1, acc)
             ELSE IF o.raised \/ o.value.sources = <<>>
             THEN FindCitationsFrom(k, chunk, claims, os, j + 1,
                     [acc EXCEPT !.calls = Append(@, call)])
             ELSE FindCitationsFrom(k, chunk, claims, os, j + 1,
                     [processed_text  |->
                         ReplaceFirst(acc.processed_text, claim,
                                      claim \o <<" ">> \o citation),
                      citations_added |->
                         Append(acc.citations_added,
                                [claim |-> claim, citation |-> citation]),
                      calls           |-> Append(acc.calls, call)])

\* lines 260-267
RECURSIVE EvidenceLines(_, _)
EvidenceLines(sources, j) ==
    IF j > Len(sources) THEN <<>>
    ELSE << <<Ordinal(j), " ">> \o _format_inline_citation(sources[j])
              \o <<": ">>
              \o (IF Len(sources[j].text) > 200
                  THEN Slice(sources[j].text, 0, 200) \o <<"...">>
                  ELSE sources[j].text) >>
         \o EvidenceLines(sources, j + 1)

\* lines 352-390: the loop over the claims from claim j on; os[j] is how the
\* inversion and the query for claim j end
RECURSIVE FindContradictionsFrom(_, _, _, _, _)
FindContradictionsFrom(k, claims, os, j, acc) ==
    IF j > Len(claims) THEN acc
    ELSE LET claim == claims[j]
             inv   == invert_claim(os[j].inv)
             c1    == Call(k, "llm.invert_claim", claim, <<>>, <<>>, inv,
                           inv.value)
             o     == os[j].rag
             c2    == Call(k, "fileintel.query", inv.value, <<"adaptive">>,
                           <<"default">>, o, o.value.answer)
         IN  IF inv.raised
             THEN FindContradictionsFrom(k, claims, os, j + 1,
                     [acc EXCEPT !.calls = Append(@, c1)])
             ELSE IF o.raised \/ o.value.sources = <<>>
             THEN FindContradictionsFrom(k, claims, os, j + 1,
                     [acc EXCEPT !.calls = @ \o <<c1, c2>>])
             ELSE FindContradictionsFrom(k, claims, os, j + 1,
                     [contradictions |->
                         Append(acc.contradictions,
                                [original_claim |-> claim,
                                 inverted_claim |-> inv.value,
                                 contradicting_sources |-> o.value.sources]),
                      calls |-> acc.calls \o <<c1, c2>>])

\* the chunk the loop of lines 105-114 is at
CurrentChunk == chunks[Len(processed_chunks) + 1]

\* an exception leaves process_document: no handler of lines 105-114 catches
Propagate(msg) ==
    /\ pc' = "doc_raised"
    /\ doc_error' = Some(msg)
    /\ UNCHANGED <<processed_chunks, call_log>>

\* lines 107-111
skip_heading ==
    /\ UNCHANGED nonDoc
    /\ pc = "doc_loop"
    /\ Len(processed_chunks) < Len(chunks)
    /\ CurrentChunk.type = "heading"
    /\ processed_chunks' = Append(processed_chunks,
          ProcessedChunk(CurrentChunk, CurrentChunk.text, doc_operation))
    /\ UNCHANGED <<pc, text, parserVars, replaceVars, expandVars, fileintel,
                   doc_operation, chunks, processed_doc, doc_error>>

\* lines 113-114 with _find_citations, lines 140-221
_find_citations ==
    /\ UNCHANGED nonDoc
    /\ pc = "doc_loop"
    /\ Len(processed_chunks) < Len(chunks)
    /\ CurrentChunk.type # "heading"
    /\ doc_operation = "find_citations"
    /\ IF Missing(fileintel)
       THEN Propagate(<<"FileIntel client required for find_citations operation">>)
       ELSE LET chunk  == CurrentChunk
                claims == _extract_claims(chunk.text)
            IN  \E os \in [1..Len(claims) -> DocRagOutcomes] :
                   LET r == FindCitationsFrom(Len(processed_chunks) + 1, chunk,
                               claims, os, 1,
                               [processed_text  |-> chunk.text,
                                citations_added |-> <<>>,
                                calls           |-> <<>>])
                   IN  /\ processed_chunks' = Append(processed_chunks,
                             [ProcessedChunk(chunk, r.processed_text,
                                             "find_citations")
                                EXCEPT !.citations_added = r.citations_added])
                       /\ call_log' = call_log \o r.calls
                       /\ UNCHANGED <<pc, doc_error>>
    /\ UNCHANGED <<text, parserVars, replaceVars, llm, default_search_type,
                   default_answer_format, expansions, outcomes, fileintel,
                   doc_operation, chunks, processed_doc>>

\* lines 113-114 with _add_evidence, lines 223-283
_add_evidence ==
    /\ UNCHANGED nonDoc
    /\ pc = "doc_loop"
    /\ Len(processed_chunks) < Len(chunks)
    /\ CurrentChunk.type # "heading"
    /\ doc_operation = "add_evidence"
    /\ IF Missing(fileintel)
       THEN Propagate(<<"FileIntel client required for add_evidence operation">>)
       ELSE LET chunk     == CurrentChunk
                sentences == _split_into_sentences(chunk.text)
            IN  IF sentences = <<>>
                THEN /\ processed_chunks' = Append(processed_chunks,
                           ProcessedChunk(chunk, chunk.text, "add_evidence"))
                     /\ UNCHANGED <<pc, doc_error, call_log>>
                ELSE \E o \in DocRagOutcomes :
                        LET question == <<"Evidence supporting: ">> \o sentences[1]
                            sources  == o.value.sources
                            evidence_text ==
                                Join(<< <<NL, NL, "Supporting evidence:">> >>
                                     \o EvidenceLines(Slice(sources, 0, 3), 1))
                        IN  /\ call_log' = Append(call_log,
                                  Call(Len(processed_chunks) + 1, "fileintel.query",
                                       question, <<"adaptive">>, <<"default">>, o,
                                       o.value.answer))
                            /\ processed_chunks' = Append(processed_chunks,
                                  IF o.raised \/ sources = <<>>
                                  THEN ProcessedChunk(chunk, chunk.text,
                                                      "add_evidence")
                                  ELSE [ProcessedChunk(chunk,
                                            chunk.text \o evidence_text,
                                            "add_evidence")
                                          EXCEPT !.evidence_added = sources])
                            /\ UNCHANGED <<pc, doc_error>>
    /\ UNCHANGED <<text, parserVars, replaceVars, llm, default_search_type,
                   default_answer_format, expansions, outcomes, fileintel,
                   doc_operation, chunks, processed_doc>>

\* lines 113-114 with _improve_clarity, lines 285-332; LLMClient has no method
\* generate, so line 319 raises AttributeError, which line 328 catches
_improve_clarity ==
    /\ UNCHANGED nonDoc
    /\ pc = "doc_loop"
    /\ Len(processed_chunks) < Len(chunks)
    /\ CurrentChunk.type # "heading"
    /\ doc_operation = "improve_clarity"
    /\ "generate" \notin LLMClientMethods
    /\ IF Missing(llm)
       THEN Propagate(<<"LLM client required for improve_clarity operation">>)
       ELSE LET chunk     == CurrentChunk
                sentences == _split_into_sentences(chunk.text)
                complex   == /\ sentences # <<>>
                             /\ Len(Words(chunk.text)) >= 25 * Len(sentences)
                o         == Raise(<<"'LLMClient' object has no attribute 'generate'">>,
                                   <<>>)
            IN  /\ processed_chunks' = Append(processed_chunks,
                      ProcessedChunk(chunk, chunk.text, "improve_clarity"))
                /\ call_log' = IF complex
                               THEN Append(call_log,
                                       Call(Len(processed_chunks) + 1,
                                            "llm.generate", chunk.text, <<>>,
                                            <<>>, o, o.value))
                               ELSE call_log
                /\ UNCHANGED <<pc, doc_error>>
    /\ UNCHANGED <<text, parserVars, replaceVars, llm, default_search_type,
                   default_answer_format, expansions, outcomes, fileintel,
                   doc_operation, chunks, processed_doc>>

\* lines 113-114 with _find_contradictions, lines 334-397
_find_contradictions ==
    /\ UNCHANGED nonDoc
    /\ pc = "doc_loop"
    /\ Len(processed_chunks) < Len(chunks)
    /\ CurrentChunk.type # "heading"
    /\ doc_operation = "find_contradictions"
    /\ IF Missing(fileintel)
       THEN Propagate(<<"FileIntel client required for find_contradictions operation">>)
       ELSE IF Missing(llm)
       THEN Propagate(<<"LLM client required for find_contradictions operation">>)
       ELSE LET chunk  == CurrentChunk
                claims == _extract_claims(chunk.text)
            IN  \E os \in [1..Len(claims) ->
                              [inv : DocLlmOutcomes, rag : DocRagOutcomes]] :
                   LET r == FindContradictionsFrom(Len(processed_chunks) + 1,
                               claims, os, 1,
                               [contradictions |-> <<>>, calls |-> <<>>])
                   IN  /\ processed_chunks' = Append(processed_chunks,
                             [ProcessedChunk(chunk, chunk.text,
                                             "find_contradictions")
                                EXCEPT !.contradictions = r.contradictions])
                       /\ call_log' = call_log \o r.calls
                       /\ UNCHANGED <<pc, doc_error>>
    /\ UNCHANGED <<text, parserVars, replaceVars, llm, default_search_type,
                   default_answer_format, expansions, outcomes, fileintel,
                   doc_operation, chunks, processed_doc>>

\* lines 137-138
unknown_operation ==
    /\ UNCHANGED nonDoc
    /\ pc = "doc_loop"
    /\ Len(processed_chunks) < Len(chunks)
    /\ CurrentChunk.type # "heading"
    /\ doc_operation \notin KnownOperations
    /\ Propagate(<<"Unknown operation: ", doc_operation>>)
    /\ UNCHANGED <<text, parserVars, replaceVars, llm, default_search_type,
                   default_answer_format, expansions, outcomes, fileintel,
                   doc_operation, chunks, processed_doc>>

\* "\n\n".join(parts)
RECURSIVE JoinParagraphs(_)
JoinParagraphs(parts) ==
    IF parts = <<>> THEN <<>>
    ELSE IF Len(parts) = 1 THEN parts[1]
    ELSE parts[1] \o <<NL, NL>> \o JoinParagraphs(Tail(parts))

\* the sum of len(chunk.<field>) over the processed chunks
RECURSIVE TotalOf(_, _)
TotalOf(pcs, field) ==
    IF pcs = <<>> THEN 0
    ELSE Len(Head(pcs)[field]) + TotalOf(Tail(pcs), field)

\* lines 116-119 with _reassemble_document, lines 468-502
_reassemble_document ==
    /\ UNCHANGED nonDoc
    /\ pc = "doc_loop"
    /\ Len(processed_chunks) = Len(chunks)
    /\ processed_doc' = Some(
          [original_text        |-> text,
           processed_text       |->
               JoinParagraphs([j \in 1..Len(processed_chunks) |->
                                  processed_chunks[j].processed_text]),
           operation            |-> doc_operation,
           chunks_processed     |-> Len(processed_chunks),
           citations_added      |-> TotalOf(processed_chunks, "citations_added"),
           evidence_added       |-> TotalOf(processed_chunks, "evidence_added"),
           improvements         |-> TotalOf(processed_chunks, "improvements"),
           contradictions_found |-> TotalOf(processed_chunks, "contradictions")])
    /\ pc' = "doc_returned"
    /\ UNCHANGED <<text, parserVars, replaceVars, expandVars, fileintel,
                   doc_operation, chunks, processed_chunks, doc_error>>

process_document ==
    \/ skip_heading
    \/ _find_citations
    \/ _add_evidence
    \/ _improve_clarity
    \/ _find_contradictions
    \/ unknown_operation
    \/ _reassemble_document

-----------------------------------------------------------------------------
(* process_document on documents given by their chunks, the result of       *)
(* chunk_markdown at line 101                                                *)

MaxChunks == 2

HeadingChunk ==
    [heading |-> <<"T">>, text |-> <<"T">>, type |-> "heading",
     context |-> <<"T">>]

Paragraph(t, context) ==
    [heading |-> <<"T">>, text |-> t, type |-> "paragraph", context |-> context]

PlainChunk == Paragraph(<<"Plain", " ", "text", ".">>, <<>>)

ClaimChunk == Paragraph(<<"Growth", " ", "is", " ", "50%", ".">>, <<"T">>)

TwoClaimChunk ==
    Paragraph(<<"Growth", " ", "is", " ", "50%", ".", " ",
                "Research shows", " ", "x", ".">>, <<>>)

CitedChunk ==
    Paragraph(<<"Growth", " ", "is", " ", "0.5", " ",
                "[", "Smith", ", ", "2020", "]", ".">>, <<"T">>)

\* one sentence of 25 words
LongChunk ==
    Paragraph(<<"W">> \o [j \in 1..48 |-> IF j % 2 = 1 THEN " " ELSE "w"]
                \o <<".">>, <<>>)

DocChunks ==
    {HeadingChunk, PlainChunk, ClaimChunk, TwoClaimChunk, CitedChunk, LongChunk}

\* the markdown text of a document with these chunks
MarkdownOf(cs) ==
    JoinParagraphs([j \in 1..Len(cs) |->
        IF cs[j].type = "heading" THEN <<"#", " ">> \o cs[j].text
        ELSE cs[j].text])

DocOperations == KnownOperations \cup {"summarize"}

InitDoc ==
    /\ pc = "doc_loop"
    /\ \E cs \in DocsOver(DocChunks, MaxChunks) :
          /\ chunks = cs
          /\ text = MarkdownOf(cs)
    /\ ParserIdle
    /\ ReplaceIdle
    /\ llm \in BOOLEAN
    /\ default_search_type = None
    /\ default_answer_format = None
    /\ expansions = <<>>
    /\ outcomes = <<>>
    /\ call_log = <<>>
    /\ fileintel \in BOOLEAN
    /\ doc_operation \in DocOperations
    /\ processed_chunks = <<>>
    /\ processed_doc = None
    /\ doc_error = None
    /\ CounterIdle
    /\ ChunkerIdle
    /\ ContextIdle
    /\ SentenceIdle
    /\ ChapterIdle
    /\ ClientIdle

NextDoc ==
    \/ skip_heading
    \/ _find_citations
    \/ _add_evidence
    \/ _improve_clarity
    \/ _find_contradictions
    \/ unknown_operation
    \/ _reassemble_document

SpecDoc == InitDoc /\ [][NextDoc]_vars

-----------------------------------------------------------------------------
(* CounterargumentGenerator.generate, one action per await.  text is the    *)
(* claim; a failing await raises out of generate, which has no try.         *)

\* the question of the second query, line 140
contradicting_question_original(claim, inverted) == claim

contradicting_question(claim, inverted) == inverted

\* an exception leaves generate
GenRaise(msg) ==
    /\ pc' = "gen_raised"
    /\ gen_error' = Some(msg)

\* CounterargumentReport(...), lines 165-172
CounterargumentReport(synthesis) ==
    [original_claim         |-> text,
     inverted_claim         |-> inverted_claim,
     supporting_evidence    |-> _build_evidence_list(supporting_response),
     contradicting_evidence |-> _build_evidence_list(contradicting_response),
     synthesis              |-> synthesis]

\* lines 128-133
gen_query_supporting ==
    /\ UNCHANGED nonCounter
    /\ pc = "gen_start"
    /\ \E o \in RagOutcomes :
          /\ call_log' = Append(call_log,
                Call(0, "fileintel.query", text, <<"vector">>, <<"default">>,
                     o, o.value.answer))
          /\ IF o.raised
             THEN GenRaise(o.exc) /\ UNCHANGED supporting_response
             ELSE /\ supporting_response' = o.value
                  /\ pc' = "gen_invert"
                  /\ UNCHANGED gen_error
    /\ UNCHANGED <<text, parserVars, replaceVars, llm, default_search_type,
                   default_answer_format, expansions, outcomes, docVars,
                   include_synthesis, inverted_claim, contradicting_response,
                   gen_report>>

\* line 136
gen_invert_claim ==
    /\ UNCHANGED nonCounter
    /\ pc = "gen_invert"
    /\ \E o \in LlmOutcomes :
          LET inv == invert_claim(o)
          IN  /\ call_log' = Append(call_log,
                    Call(0, "llm.invert_claim", text, <<>>, <<>>, inv,
                         inv.value))
              /\ IF inv.raised
                 THEN GenRaise(inv.exc) /\ UNCHANGED inverted_claim
                 ELSE /\ inverted_claim' = inv.value
                      /\ pc' = "gen_query_contradicting"
                      /\ UNCHANGED gen_error
    /\ UNCHANGED <<text, parserVars, replaceVars, llm, default_search_type,
                   default_answer_format, expansions, outcomes, docVars,
                   include_synthesis, supporting_response,
                   contradicting_response, gen_report>>

\* lines 139-144
gen_query_contradicting ==
    /\ UNCHANGED nonCounter
    /\ pc = "gen_query_contradicting"
    /\ \E o \in RagOutcomes :
          /\ call_log' = Append(call_log,
                Call(0, "fileintel.query",
                     contradicting_question(text, inverted_claim),
                     <<"vector">>, <<"default">>, o, o.value.answer))
          /\ IF o.raised
             THEN GenRaise(o.exc) /\ UNCHANGED contradicting_response
             ELSE /\ contradicting_response' = o.value
                  /\ pc' = "gen_evidence"
                  /\ UNCHANGED gen_error
    /\ UNCHANGED <<text, parserVars, replaceVars, llm, default_search_type,
                   default_answer_format, expansions, outcomes, docVars,
                   include_synthesis, supporting_response, inverted_claim,
                   gen_report>>

\* lines 147-156 and 165-172 when include_synthesis is false
gen_return ==
    /\ UNCHANGED nonCounter
    /\ pc = "gen_evidence"
    /\ ~include_synthesis
    /\ gen_report' = Some(CounterargumentReport(None))
    /\ pc' = "gen_returned"
    /\ UNCHANGED <<text, parserVars, replaceVars, expandVars, docVars,
                   include_synthesis, supporting_response, inverted_claim,
                   contradicting_response, gen_error>>

\* lines 147-172 when include_synthesis is true, with _synthesize
gen_synthesize ==
    /\ UNCHANGED nonCounter
    /\ pc = "gen_evidence"
    /\ include_synthesis
    /\ \E o \in LlmOutcomes :
          LET syn == _synthesize(o)
          IN  /\ call_log' = Append(call_log,
                    Call(0, "llm.chat.completions", text, <<>>, <<>>, syn,
                         syn.value))
              /\ IF syn.raised
                 THEN GenRaise(syn.exc) /\ UNCHANGED gen_report
                 ELSE /\ gen_report' = Some(CounterargumentReport(Some(syn.value)))
                      /\ pc' = "gen_returned"
                      /\ UNCHANGED gen_error
    /\ UNCHANGED <<text, parserVars, replaceVars, llm, default_search_type,
                   default_answer_format, expansions, outcomes, docVars,
                   include_synthesis, supporting_response, inverted_claim,
                   contradicting_response>>

Claims == {<<"c">>, <<"Growth", " ", "is", " ", "50%", ".">>}

InitCounter ==
    /\ pc = "gen_start"
    /\ text \in Claims
    /\ ParserIdle
    /\ ReplaceIdle
    /\ llm = TRUE
    /\ default_search_type = None
    /\ default_answer_format = None
    /\ expansions = <<>>
    /\ outcomes = <<>>
    /\ call_log = <<>>
    /\ DocIdle
    /\ include_synthesis \in BOOLEAN
    /\ supporting_response = EmptyResponse
    /\ inverted_claim = <<>>
    /\ contradicting_response = EmptyResponse
    /\ gen_report = None
    /\ gen_error = None
    /\ ChunkerIdle
    /\ ContextIdle
    /\ SentenceIdle
    /\ ChapterIdle
    /\ ClientIdle

NextCounter ==
    \/ gen_query_supporting
    \/ gen_invert_claim
    \/ gen_query_contradicting
    \/ gen_return
    \/ gen_synthesize

SpecCounter == InitCounter /\ [][NextCounter]_vars

-----------------------------------------------------------------------------
(* MarkdownChunker.  Its documents are texts of one-character tokens, so    *)
(* that Len is len() and a position is a character offset.                   *)

\* sep.join(parts)
RECURSIVE JoinWith(_, _)
JoinWith(parts, sep) ==
    IF parts = <<>> THEN <<>>
    ELSE IF Len(parts) = 1 THEN parts[1]
    ELSE parts[1] \o sep \o JoinWith(Tail(parts), sep)

\* Chunk(heading=..., text=..., type=..., context=..., start_pos=..., end_pos=...)
Chunk(heading, t, type, context, start_pos, level) ==
    [heading   |-> heading,
     text      |-> t,
     type      |-> type,
     context   |-> context,
     start_pos |-> start_pos,
     end_pos   |-> start_pos + Len(t),
     level     |-> level]

\* the dict of lines 138-146 and 170-176 for the state st of the scan;
\* stack_levels is not a key of the dict: it records the levels of the
\* headings that heading_stack holds when the section is saved
SectionOf(st) ==
    [heading   |-> st.current_heading,
     stack_levels |-> st.stack_levels,
     content   |-> Join(st.current_content),
     context   |-> IF st.heading_stack # <<>>
                   THEN JoinWith(st.heading_stack, <<" ", ">", " ">>)
                   ELSE st.current_heading,
     start_pos |-> st.pos - Len(Join(st.current_content)),
     level     |-> st.current_level]

\* lines 136-147 and 168-177: the open section is saved if it has a heading
SaveSection(st) ==
    IF st.current_heading # <<>> THEN Append(st.sections, SectionOf(st))
    ELSE st.sections

\* lines 131-177: the scan from line j on (1-based)
RECURSIVE ParseSectionsFrom(_, _, _)
ParseSectionsFrom(ls, j, st) ==
    IF j > Len(ls) THEN SaveSection(st)
    ELSE LET line == ls[j]
             pos  == st.pos + Len(line) + 1
         IN  IF HeadingMatch(line)
             THEN LET level        == HeadingHashes(line)
                      heading_text == HeadingText(line)
                      keep         == IF Len(st.heading_stack) >= level
                                      THEN level - 1
                                      ELSE Len(st.heading_stack)
                  IN  ParseSectionsFrom(ls, j + 1,
                         [sections        |-> SaveSection(st),
                          current_heading |-> heading_text,
                          current_content |-> <<>>,
                          current_level   |-> level,
                          heading_stack   |->
                              Append(SubSeq(st.heading_stack, 1, keep),
                                     heading_text),
                          stack_levels    |->
                              Append(SubSeq(st.stack_levels, 1, keep), level),
                          pos             |-> pos])
             ELSE ParseSectionsFrom(ls, j + 1,
                     [st EXCEPT !.current_content = Append(@, line),
                                !.pos = pos])

\* lines 115-179
_parse_sections(markdown_text) ==
    ParseSectionsFrom(Split(markdown_text), 1,
        [sections        |-> <<>>,
         current_heading |-> <<>>,
         current_content |-> <<>>,
         current_level   |-> 0,
         heading_stack   |-> <<>>,
         stack_levels    |-> <<>>,
         pos             |-> 0])

\* the backquote character, written as a tilde
Backquote == "~"

\* line.strip().startswith of three backquotes
StartsFence(s) == Slice(Strip(s), 0, 3) = <<Backquote, Backquote, Backquote>>

\* re.match(r"^[\s]*[-*+]\s+", s)
StartsListItem(s) ==
    LET a == LStrip(s)
    IN  /\ Len(a) >= 2
        /\ a[1] \in {"-", "*", "+"}
        /\ a[2] \in Whitespace

\* blocks.append("\n".join(current_block)); current_block = []
Flush(st) ==
    [st EXCEPT !.blocks = Append(@, Join(st.current_block)),
               !.current_block = <<>>]

FlushIfOpen(st) == IF st.current_block # <<>> THEN Flush(st) ELSE st

\* lines 245-286: the body of the loop for one line
BlockStep(st, line) ==
    IF StartsFence(line)
    THEN LET opened == [st EXCEPT !.in_code_block = ~@,
                                  !.current_block = Append(@, line)]
         IN  IF ~opened.in_code_block THEN Flush(opened) ELSE opened
    ELSE IF st.in_code_block
    THEN [st EXCEPT !.current_block = Append(@, line)]
    ELSE IF StartsListItem(line)
    THEN LET begun == IF ~st.in_list
                      THEN [FlushIfOpen(st) EXCEPT !.in_list = TRUE]
                      ELSE st
         IN  [begun EXCEPT !.current_block = Append(@, line)]
    ELSE LET ended == IF st.in_list /\ Strip(line) # <<>>
                      THEN [Flush(st) EXCEPT !.in_list = FALSE]
                      ELSE st
         IN  IF Strip(line) = <<>> THEN FlushIfOpen(ended)
             ELSE [ended EXCEPT !.current_block = Append(@, line)]

RECURSIVE SplitBlocksFrom(_, _, _)
SplitBlocksFrom(ls, j, st) ==
    IF j > Len(ls) THEN FlushIfOpen(st).blocks
    ELSE SplitBlocksFrom(ls, j + 1, BlockStep(st, ls[j]))

\* lines 233-292
_split_into_blocks(content) ==
    SelectSeq(SplitBlocksFrom(Split(content), 1,
                  [blocks        |-> <<>>,
                   current_block |-> <<>>,
                   in_code_block |-> FALSE,
                   in_list       |-> FALSE]),
              LAMBDA b : Strip(b) # <<>>)

\* lines 294-305
_detect_block_type(block) ==
    LET block_stripped == Strip(block)
    IN  IF StartsFence(block_stripped) THEN "code"
        ELSE IF block_stripped # <<>> /\ Head(block_stripped) = ">" THEN "quote"
        ELSE IF StartsListItem(block_stripped) THEN "list"
        ELSE "paragraph"

\* lines 405-411
_estimate_tokens(t) == Len(t) \div 4
\* lines 324-359: the loop from sentence j on, then the final chunk
RECURSIVE ChunkSentencesFrom(_, _, _, _, _, _)
ChunkSentencesFrom(sentences, j, st, heading, context, max) ==
    LET chunk_text == JoinWith(st.current_sentences, <<" ">>)
        closed     == [chunks            |->
                           Append(st.chunks,
                                  Chunk(heading, chunk_text, "paragraph",
                                        context, st.start_pos, 0)),
                       current_sentences |-> <<>>,
                       current_tokens    |-> 0,
                       start_pos         |-> st.start_pos + Len(chunk_text) + 1]
    IN  IF j > Len(sentences)
        THEN IF st.current_sentences # <<>> THEN closed.chunks ELSE st.chunks
        ELSE LET sentence        == sentences[j]
                 sentence_tokens == _estimate_tokens(sentence)
                 before == IF /\ st.current_sentences # <<>>
                              /\ st.current_tokens + sentence_tokens > max
                           THEN closed ELSE st
             IN  ChunkSentencesFrom(sentences, j + 1,
                    [before EXCEPT !.current_sentences = Append(@, sentence),
                                   !.current_tokens = @ + sentence_tokens],
                    heading, context, max)

\* lines 307-361
_chunk_paragraph(paragraph, heading, context, start_pos, max) ==
    ChunkSentencesFrom(_split_into_sentences(paragraph), 1,
        [chunks |-> <<>>, current_sentences |-> <<>>, current_tokens |-> 0,
         start_pos |-> start_pos],
        heading, context, max)

\* lines 197-229: the loop from block j on
RECURSIVE ChunkBlocksFrom(_, _, _, _, _, _)
ChunkBlocksFrom(blocks, j, current_pos, heading, context, max) ==
    IF j > Len(blocks) THEN <<>>
    ELSE LET block      == blocks[j]
             block_type == _detect_block_type(block)
         IN  (IF block_type \in {"code", "quote", "list"}
              THEN <<Chunk(heading, block, block_type, context, current_pos, 0)>>
              ELSE _chunk_paragraph(block, heading, context, current_pos, max))
             \o ChunkBlocksFrom(blocks, j + 1, current_pos + Len(block) + 1,
                                heading, context, max)

\* lines 181-231
_chunk_section_content(content, heading, context, start_pos, max) ==
    IF Strip(content) = <<>> THEN <<>>
    ELSE ChunkBlocksFrom(_split_into_blocks(content), 1, start_pos, heading,
                         context, max)

\* lines 85-86
chunk_begin ==
    /\ UNCHANGED nonChunker
    /\ pc = "chunk"
    /\ chunks' = <<>>
    /\ sections' = _parse_sections(text)
    /\ section_index' = 0
    /\ pc' = "chunk_loop"
    /\ UNCHANGED <<text, max_tokens>>

\* lines 88-111 for one section
chunk_section ==
    /\ UNCHANGED nonChunker
    /\ pc = "chunk_loop"
    /\ section_index < Len(sections)
    /\ LET section      == sections[section_index + 1]
           heading_text == section.heading
       IN  chunks' = chunks
              \o (IF heading_text # <<>>
                  THEN <<Chunk(heading_text, heading_text, "heading",
                               section.context, section.start_pos,
                               section.level)>>
                  ELSE <<>>)
              \o _chunk_section_content(section.content, heading_text,
                                        section.context, section.start_pos,
                                        max_tokens)
    /\ section_index' = section_index + 1
    /\ UNCHANGED <<pc, text, max_tokens, sections>>

\* line 113
chunk_return ==
    /\ UNCHANGED nonChunker
    /\ pc = "chunk_loop"
    /\ section_index = Len(sections)
    /\ pc' = "chunked"
    /\ UNCHANGED <<text, chunks, chunkerVars>>

chunk_markdown ==
    \/ chunk_begin
    \/ chunk_section
    \/ chunk_return

(* chunk_markdown on documents built from lines *)

MaxChunkerLines == 4

ChunkerLines ==
    {<<"#", " ", "T">>,
     <<"#", "#", " ", "W">>,
     <<"#", " ", " ">>,
     <<>>,
     <<Backquote, Backquote, Backquote>>,
     <<"-", " ", "w">>,
     <<">", " ", "w">>,
     <<"w">>,
     <<"T", "w", "w", "w", "w", "w", ".", " ", "T", "w", "w", "w", "w", "w", ".">>}

\* MarkdownChunker(max_tokens=...)
MaxTokens == {2, 500}

InitChunk ==
    /\ pc = "chunk"
    /\ \E d \in DocsOver(ChunkerLines, MaxChunkerLines) : text = Join(d)
    /\ ParserIdle
    /\ ReplaceIdle
    /\ ExpandIdle
    /\ DocIdle
    /\ CounterIdle
    /\ max_tokens \in MaxTokens
    /\ sections = <<>>
    /\ section_index = 0
    /\ ContextIdle
    /\ SentenceIdle
    /\ ChapterIdle
    /\ ClientIdle

NextChunk ==
    \/ chunk_begin
    \/ chunk_section
    \/ chunk_return

SpecChunk == InitChunk /\ [][NextChunk]_vars

-----------------------------------------------------------------------------
(* process_document from the markdown text: chunk_markdown at line 101,     *)
(* then the loop of lines 104-114 and _reassemble_document                   *)

\* document_processor.py line 76: MarkdownChunker(target_tokens=300, max_tokens=500)
DefaultMaxTokens == 500

\* lines 101-104: chunk_markdown has returned; processed_chunks = []
start_processing ==
    /\ UNCHANGED nonDoc
    /\ pc = "chunked"
    /\ processed_chunks' = <<>>
    /\ pc' = "doc_loop"
    /\ UNCHANGED <<text, parserVars, replaceVars, expandVars, fileintel,
                   doc_operation, chunks, processed_doc, doc_error>>

MaxProcessLines == 3

ProcessLines ==
    {<<"#", " ", "T">>,
     <<"#", "#", " ", "W">>,
     <<>>,
     <<"-", " ", "w">>,
     <<"w">>,
     <<"T", "w", "w", "w", "w", "w", ".", " ", "T", "w", "w", "w", "w", "w", ".">>}

InitProcess ==
    /\ pc = "chunk"
    /\ \E d \in DocsOver(ProcessLines, MaxProcessLines) : text = Join(d)
    /\ ParserIdle
    /\ ReplaceIdle
    /\ llm \in BOOLEAN
    /\ default_search_type = None
    /\ default_answer_format = None
    /\ expansions = <<>>
    /\ outcomes = <<>>
    /\ call_log = <<>>
    /\ fileintel \in BOOLEAN
    /\ doc_operation \in DocOperations
    /\ chunks = <<>>
    /\ processed_chunks = <<>>
    /\ processed_doc = None
    /\ doc_error = None
    /\ CounterIdle
    /\ max_tokens = DefaultMaxTokens
    /\ sections = <<>>
    /\ section_index = 0
    /\ ContextIdle
    /\ SentenceIdle
    /\ ChapterIdle
    /\ ClientIdle

NextProcess ==
    \/ chunk_begin
    \/ chunk_section
    \/ chunk_return
    \/ start_processing
    \/ skip_heading
    \/ _find_citations
    \/ _add_evidence
    \/ _improve_clarity
    \/ _find_contradictions
    \/ unknown_operation
    \/ _reassemble_document

SpecProcess == InitProcess /\ [][NextProcess]_vars

-----------------------------------------------------------------------------
(* _split_into_sentences on texts of one-character tokens built from words  *)

\* lines 370-388: the set abbreviations, each a sequence of characters
abbreviations ==
    {<<"d", "r">>, <<"m", "r">>, <<"m", "r", "s">>, <<"m", "s">>,
     <<"p", "r", "o", "f">>, <<"s", "r">>, <<"j", "r">>, <<"e", "t", "c">>,
     <<"v", "s">>, <<"e", ".", "g">>, <<"i", ".", "e">>, <<"p">>,
     <<"p", "p">>, <<"v", "o", "l">>, <<"f", "i", "g">>, <<"a", "l">>,
     <<"e", "t">>}

\* lines 392-403 on text
split_into_sentences_call ==
    /\ pc = "split"
    /\ cleaned_sentences' = _split_into_sentences(text)
    /\ pc' = "split_done"
    /\ UNCHANGED <<text, parserVars, replaceVars, expandVars, docVars,
                   counterVars, chunkerVars, context_call, chapterVars,
                   clientVars>>

MaxWords == 4

SentenceWords ==
    {<<"D", "r", ".">>,
     <<"M", "r", "s", ".">>,
     <<"P", "r", "o", "f", ".">>,
     <<"e", ".", "g", ".">>,
     <<"T", "w", ".">>,
     <<"T", "w">>,
     <<"w">>}

InitSentence ==
    /\ pc = "split"
    /\ \E ws \in DocsOver(SentenceWords, MaxWords) : text = JoinWith(ws, <<" ">>)
    /\ ParserIdle
    /\ ReplaceIdle
    /\ ExpandIdle
    /\ DocIdle
    /\ CounterIdle
    /\ ChunkerIdle
    /\ ContextIdle
    /\ SentenceIdle
    /\ ChapterIdle
    /\ ClientIdle

NextSentence == split_into_sentences_call

SpecSentence == InitSentence /\ [][NextSentence]_vars

-----------------------------------------------------------------------------
(* parse_markers on documents built from blocks: headings, text, closed     *)
(* regions (one of them holding a heading line) and an opener left open     *)

MaxParseBlocks == 3

ParseBlocks ==
    {<<LineH1>>,
     <<LineH2>>,
     <<LineText>>,
     <<OpenEvidence, LineH2, LineClose>>,
     <<OpenExpand, BulletLine, LineClose>>,
     <<OpenCitations, LineText>>}

InitParseBlocks ==
    /\ pc = "parse"
    /\ \E bs \in DocsOver(ParseBlocks, MaxParseBlocks) : text = Join(Flatten(bs))
    /\ ParserIdle
    /\ ReplaceIdle
    /\ ExpandIdle
    /\ DocIdle
    /\ CounterIdle
    /\ ChunkerIdle
    /\ ContextIdle
    /\ SentenceIdle
    /\ ChapterIdle
    /\ ClientIdle

SpecParseBlocks == InitParseBlocks /\ [][NextParse]_vars

-----------------------------------------------------------------------------
(* FormatterService.deduplicate_citations and renumber_citations_in_content, *)
(* SectionGenerator.generate and ChapterProcessor.process.  A Citation is    *)
(* its id and the fields its key is made of; year and full_citation are      *)
(* copied unchanged and left out.                                            *)

Citation(id, author, title, page) ==
    [id |-> id, author |-> author, title |-> title, page |-> page]

\* formatter.py line 117
CitationKey(citation) == <<citation.author, citation.title, citation.page>>

\* formatter.py lines 116-138 from citation j on; st holds seen, unique and
\* id_mapping
RECURSIVE DeduplicateFrom(_, _, _)
DeduplicateFrom(citations, j, st) ==
    IF j > Len(citations) THEN st
    ELSE LET citation == citations[j]
             key      == CitationKey(citation)
             new_id   == Len(st.unique) + 1
         IN  IF key \in DOMAIN st.seen
             THEN DeduplicateFrom(citations, j + 1,
                     [st EXCEPT !.id_mapping =
                                   DictSet(@, citation.id, st.seen[key])])
             ELSE DeduplicateFrom(citations, j + 1,
                     [seen       |-> DictSet(st.seen, key, new_id),
                      id_mapping |-> DictSet(st.id_mapping, citation.id, new_id),
                      unique     |-> Append(st.unique,
                                            [citation EXCEPT !.id = new_id])])

\* formatter.py lines 97-140: unique and id_mapping
deduplicate_citations(citations) ==
    DeduplicateFrom(citations, 1,
        [seen |-> EmptyDict, id_mapping |-> EmptyDict, unique |-> <<>>])

\* the footnote markers [^N], one token each
FootnoteMarkers == <<"[^1]", "[^2]", "[^3]", "[^4]", "[^5]", "[^6]">>

IsFootnoteMarker(tok) == \E n \in 1..Len(FootnoteMarkers) : FootnoteMarkers[n] = tok

\* int(match.group(1))
MarkerId(tok) == CHOOSE n \in 1..Len(FootnoteMarkers) : FootnoteMarkers[n] = tok

\* formatter.py lines 142-164
renumber_citations_in_content(content, id_mapping) ==
    [p \in 1..Len(content) |->
        IF IsFootnoteMarker(content[p])
        THEN LET old_id == MarkerId(content[p])
             IN  FootnoteMarkers[IF old_id \in DOMAIN id_mapping
                                 THEN id_mapping[old_id] ELSE old_id]
        ELSE content[p]]

\* AcademicSection(heading=..., level=..., content=..., citations=...)
AcademicSection(heading, level, content, citations) ==
    [heading |-> heading, level |-> level, content |-> content,
     citations |-> citations]

\* section_generator.py lines 118-157: the citations of the sources, numbered
\* from 1 by enumerate(sources, 1).  A source is given by the author, title
\* and page that lines 131-150 derive from its metadata.
_extract_citations(sources) ==
    [j \in 1..Len(sources) |->
        Citation(j, sources[j].author, sources[j].title, sources[j].page)]

\* section_generator.py lines 86-102 on the response of the query
GeneratedSection(heading, response) ==
    AcademicSection(heading, 2, response.answer,
                    _extract_citations(response.sources))

\* the sources a response can name
SourceX == [author |-> "Smith", title |-> "T", page |-> 5]

SourceY == [author |-> "Smith", title |-> "T", page |-> 6]

SourceZ == [author |-> "Jones", title |-> "U", page |-> 0]

\* what client.query gives section_generator.generate: an exception or a
\* response whose answer cites its sources by their number
SectionOutcomes ==
    {Raise(RagError, [answer |-> <<>>, sources |-> <<>>]),
     Return([answer |-> <<"w">>, sources |-> <<>>]),
     Return([answer |-> <<"w", " ", "[^1]">>, sources |-> <<SourceX>>]),
     Return([answer |-> <<"w", " ", "[^1]">>, sources |-> <<SourceY>>]),
     Return([answer |-> <<"[^1]", " ", "[^2]">>, sources |-> <<SourceZ, SourceX>>])}

\* OutlineItem j of the outline: its heading, its level and the index of its
\* parent (0 for a top-level item)
IsDescendant(k, j) ==
    LET RECURSIVE Up(_)
        Up(n) == IF n = 0 THEN FALSE
                 ELSE IF n = j THEN TRUE
                 ELSE Up(outline[n].parent)
    IN  k # j /\ Up(k)

\* the index of the last item of the subtree of item j
SubtreeEnd(j) ==
    CHOOSE e \in j..Len(outline) :
        /\ \A k \in (j + 1)..e : IsDescendant(k, j)
        /\ (e = Len(outline) \/ ~IsDescendant(e + 1, j))

\* variant of line 184: the context is passed as it is
context_argument_unconverted(context) == Some(context)

\* chapter_processor.py line 184: context if context else None
context_argument(context) == IF context # <<>> THEN Some(context) ELSE None

\* chapter_processor.py line 193
section_context(item) == <<"Parent section: ">> \o item.heading

\* chapter_processor.py line 120
previous_context(last_section) == <<"Previous section: ">> \o last_section.heading

\* chapter_processor.py lines 215-220
PlaceholderSection(item, e) ==
    AcademicSection(item.heading, item.level,
                    <<"Error generating section: ">> \o e, <<>>)

\* lines 105-120 and 177-223: _process_item for the outline item next_item,
\* up to the next await.  Its context is the running context of process for a
\* top-level item and section_context of the parent for a child; when
\* generate raises and continue_on_error is set the placeholder is all the
\* call returns, so the children of the item are not visited; the running
\* context is updated when the call for a top-level item has returned.
_process_item ==
    /\ pc = "chapter_loop"
    /\ next_item <= Len(outline)
    /\ \E o \in SectionOutcomes :
          LET j       == next_item
              item    == outline[j]
              context == IF item.parent = 0 THEN chapter_context
                         ELSE section_context(outline[item.parent])
              call    == [item    |-> j,
                          heading |-> item.heading,
                          context |-> context_argument(context),
                          raised  |-> o.raised,
                          section |-> GeneratedSection(item.heading, o.value)]
              section == [GeneratedSection(item.heading, o.value)
                            EXCEPT !.level = item.level]
              after   == IF o.raised THEN SubtreeEnd(j) + 1 ELSE j + 1
              done    == IF o.raised
                         THEN Append(chapter_sections,
                                     PlaceholderSection(item, o.exc))
                         ELSE Append(chapter_sections, section)
          IN  /\ generate_calls' = Append(generate_calls, call)
              /\ IF o.raised /\ ~continue_on_error
                 THEN /\ pc' = "chapter_raised"
                      /\ chapter_error' = Some(o.exc)
                      /\ UNCHANGED <<chapter_sections, chapter_context,
                                     next_item>>
                 ELSE /\ chapter_sections' = done
                      /\ next_item' = after
                      /\ chapter_context' =
                            IF after > Len(outline) \/ outline[after].parent = 0
                            THEN previous_context(done[Len(done)])
                            ELSE chapter_context
                      /\ UNCHANGED <<pc, chapter_error>>
    /\ UNCHANGED <<text, parserVars, replaceVars, expandVars, docVars,
                   counterVars, chunkerVars, context_call, sentenceVars,
                   clientVars,
                   outline, continue_on_error, chapter>>

\* the concatenation of the citation lists of the sections, lines 123-125
RECURSIVE AllCitations(_)
AllCitations(ss) ==
    IF ss = <<>> THEN <<>>
    ELSE Head(ss).citations \o AllCitations(Tail(ss))

\* lines 122-151: deduplication, renumbering and the Chapter returned
chapter_return ==
    /\ pc = "chapter_loop"
    /\ next_item > Len(outline)
    /\ LET d == deduplicate_citations(AllCitations(chapter_sections))
           renumbered ==
               [k \in 1..Len(chapter_sections) |->
                   LET section == chapter_sections[k]
                       ids     == {section.citations[n].id :
                                      n \in 1..Len(section.citations)}
                   IN  [section EXCEPT
                          !.content = renumber_citations_in_content(
                                          section.content, d.id_mapping),
                          !.citations = SelectSeq(d.unique,
                                           LAMBDA cit : cit.id \in ids)]]
       IN  /\ chapter' = Some([sections  |-> renumbered,
                               citations |-> d.unique,
                               metadata  |->
                                  [total_sections   |-> Len(renumbered),
                                   total_citations  |->
                                      Len(AllCitations(renumbered)),
                                   unique_citations |-> Len(d.unique)]])
           /\ chapter_sections' = renumbered
    /\ pc' = "chapter_returned"
    /\ UNCHANGED <<text, parserVars, replaceVars, expandVars, docVars,
                   counterVars, chunkerVars, context_call, sentenceVars,
                   clientVars,
                   outline, continue_on_error, chapter_context, next_item,
                   generate_calls, chapter_error>>

(* process on outlines of up to MaxItems items *)

MaxItems == 3

ItemHeadings == <<"h1", "h2", "h3", "h4">>

\* the outlines of n items: item j is a child of an item on the path from
\* the root to item j - 1, or a top-level item
OutlinesOf(n) ==
    {[j \in 1..n |-> [heading |-> <<ItemHeadings[j]>>,
                      level   |-> IF p[j] = 0 THEN 2 ELSE 3,
                      parent  |-> p[j]]] :
        p \in {q \in [1..n -> 0..(n - 1)] :
                 \A j \in 1..n :
                    /\ q[j] < j
                    /\ q[j] # 0 =>
                          \/ q[j] = j - 1
                          \/ (j > 1 /\ q[j] = q[j - 1])
                          \/ (j > 2 /\ q[j - 1] # 0 /\ q[j] = q[q[j - 1]])}}

InitChapter ==
    /\ pc = "chapter_loop"
    /\ text = <<>>
    /\ ParserIdle
    /\ ReplaceIdle
    /\ ExpandIdle
    /\ DocIdle
    /\ CounterIdle
    /\ ChunkerIdle
    /\ ContextIdle
    /\ SentenceIdle
    /\ \E n \in 1..MaxItems : outline \in OutlinesOf(n)
    /\ continue_on_error \in BOOLEAN
    /\ chapter_sections = <<>>
    /\ chapter_context = <<>>
    /\ next_item = 1
    /\ generate_calls = <<>>
    /\ chapter = None
    /\ chapter_error = None
    /\ ClientIdle

NextChapter ==
    \/ _process_item
    \/ chapter_return

SpecChapter == InitChapter /\ [][NextChapter]_vars

-----------------------------------------------------------------------------
(* FileIntelClient: the scoped HTTP connection.  pc is "client_outside"      *)
(* before `async with` and after it, "client_inside" in its body and         *)
(* "client_raising" while an exception leaves the body.  A connection is     *)
(* named by its index in connections.                                        *)

NotInitialized == <<"Client not initialized. Use 'async with' context manager.">>

\* variant: a client that holds no connection is given a new one, the
\* 'create' of the docstring 'Get or create HTTP client'
_get_or_create_client(client) ==
    Return(IF client = None THEN Len(connections) + 1 ELSE client.val)

\* fileintel.py lines 89-100
_get_client(client) ==
    IF client = None THEN Raise(NotInitialized, <<>>) ELSE Return(client.val)

\* an entry of client_log: the call, the connection a request was sent on
\* (0 when none was sent), whether the call raised and with what
ClientCall(op, connection, raised, exc) ==
    [op |-> op, connection |-> connection, raised |-> raised, exc |-> exc]

MaxClientCalls == 5

\* lines 69-77: `async with` on a client that is not inside its context
__aenter__ ==
    /\ pc = "client_outside"
    /\ Len(client_log) < MaxClientCalls
    /\ connections' = Append(connections, "open")
    /\ _client' = Some(Len(connections) + 1)
    /\ client_log' = Append(client_log,
                        ClientCall("__aenter__", Len(connections) + 1, FALSE, <<>>))
    /\ pc' = "client_inside"
    /\ UNCHANGED <<text, parserVars, replaceVars, expandVars, docVars,
                   counterVars, chunkerVars, context_call, sentenceVars,
                   chapterVars>>

\* lines 83-87: the state close leaves
Closed ==
    /\ _client' = None
    /\ connections' = IF _client # None
                      THEN [connections EXCEPT ![_client.val] = "closed"]
                      ELSE connections
    /\ client_log' = Append(client_log,
                        ClientCall("close",
                                   IF _client # None THEN _client.val ELSE 0,
                                   FALSE, <<>>))

\* lines 79-81: the body of `async with` is left, normally or by an exception
__aexit__ ==
    /\ pc \in {"client_inside", "client_raising"}
    /\ Closed
    /\ pc' = "client_outside"
    /\ UNCHANGED <<text, parserVars, replaceVars, expandVars, docVars,
                   counterVars, chunkerVars, context_call, sentenceVars,
                   chapterVars>>

\* lines 83-87: close called by the user of the client
close ==
    /\ pc \in {"client_inside", "client_outside"}
    /\ Len(client_log) < MaxClientCalls
    /\ Closed
    /\ UNCHANGED <<pc, text, parserVars, replaceVars, expandVars, docVars,
                   counterVars, chunkerVars, context_call, sentenceVars,
                   chapterVars>>

\* what the request of an operation can end with: its result or one of the
\* exceptions the operation raises
RequestOutcomes == {Return(<<>>), Raise(RagError, <<>>)}

\* an operation that starts with client = self._get_client() and then sends
\* its request on that connection.  An exception raised in the body of
\* `async with` is handled there or leaves the body.
Operation(op) ==
    /\ pc \in {"client_inside", "client_outside"}
    /\ LET client == _get_client(_client)
       IN  IF client.raised
           THEN /\ client_log' = Append(client_log,
                                    ClientCall(op, 0, TRUE, client.exc))
                /\ IF pc = "client_inside"
                   THEN pc' \in {"client_inside", "client_raising"}
                   ELSE pc' = pc
           ELSE \E o \in RequestOutcomes :
                   /\ client_log' = Append(client_log,
                                       ClientCall(op, client.value, o.raised,
                                                  o.exc))
                   /\ IF o.raised /\ pc = "client_inside"
                      THEN pc' \in {"client_inside", "client_raising"}
                      ELSE pc' = pc
    /\ UNCHANGED <<_client, connections>>
    /\ UNCHANGED <<text, parserVars, replaceVars, expandVars, docVars,
                   counterVars, chunkerVars, context_call, sentenceVars,
                   chapterVars>>

\* lines 181-201
health_check ==
    /\ Len(client_log) < MaxClientCalls
    /\ Operation("health_check")

\* lines 203-230
list_collections ==
    /\ Len(client_log) < MaxClientCalls
    /\ Operation("list_collections")

\* lines 232-326
query ==
    /\ Len(client_log) < MaxClientCalls
    /\ Operation("query")

InitClient ==
    /\ pc = "client_outside"
    /\ text = <<>>
    /\ ParserIdle
    /\ ReplaceIdle
    /\ ExpandIdle
    /\ DocIdle
    /\ CounterIdle
    /\ ChunkerIdle
    /\ ContextIdle
    /\ SentenceIdle
    /\ ChapterIdle
    /\ _client = None
    /\ connections = <<>>
    /\ client_log = <<>>

NextClient ==
    \/ __aenter__
    \/ __aexit__
    \/ close
    \/ health_check
    \/ list_collections
    \/ query

SpecClient == InitClient /\ [][NextClient]_vars

-----------------------------------------------------------------------------
(* Properties of replace_all_markers (SpecReplace) *)

\* the pair of exps whose region starts at line j, as a sequence of 0 or 1
StartingAt(exps, j) == SelectSeq(exps, LAMBDA e : e[1].start_line = j)

InsideRegion(exps, j) ==
    \E k \in 1..Len(exps) :
        exps[k][1].start_line <= j /\ j <= exps[k][1].end_line

\* the pieces of the spliced document from line j on (0-based)
RECURSIVE ExpectedFrom(_, _, _)
ExpectedFrom(ls, exps, j) ==
    IF j >= Len(ls) THEN <<>>
    ELSE (IF StartingAt(exps, j) # <<>> THEN <<StartingAt(exps, j)[1][2]>>
          ELSE IF InsideRegion(exps, j) THEN <<>>
          ELSE <<ls[j + 1]>>)
         \o ExpectedFrom(ls, exps, j + 1)

\* C1: for pairwise disjoint regions, replace_all_markers returns the original
\* lines with each region start_line..end_line replaced by its replacement
\* text and every other line unchanged and in order, also when a replacement
\* text contains line breaks.
C1_ReplaceAllSplicesRegions ==
    (pc = "replaced" /\ Disjoint(replacements))
        => expanded_text = Join(ExpectedFrom(Split(text), replacements, 0))

C1_Witness ==
    /\ pc = "replaced"
    /\ Len(replacements) = 2
    /\ Disjoint(replacements)
    /\ replacements[1][1].start_line < replacements[2][1].start_line
    /\ NL \in {replacements[1][2][k] : k \in 1..Len(replacements[1][2])}
    /\ \E j \in 0..(Len(Split(text)) - 1) : ~InsideRegion(replacements, j)

Permuted(seq) ==
    {[k \in 1..Len(seq) |-> seq[f[k]]] : f \in Permutations(1..Len(seq))}

\* content occurs in the lines rs as the lines a+1 .. a+Len(Split(content))
OccursAt(rs, content, a) ==
    /\ a + Len(Split(content)) <= Len(rs)
    /\ SubSeq(rs, a + 1, a + Len(Split(content))) = Split(content)

\* C2: the result of replace_all_markers is the same for every permutation of
\* the supplied pairs, and in it the replacement of the region with the
\* smaller start_line comes before the replacement of the region with the
\* larger start_line.
C2_OrderIndependent ==
    pc = "replaced" =>
        /\ \A p \in Permuted(replacements) :
              replace_all_markers(text, p) = expanded_text
        /\ \A j, k \in 1..Len(replacements) :
              replacements[j][1].start_line < replacements[k][1].start_line =>
                 \E a, b \in 0..Len(Split(expanded_text)) :
                    /\ OccursAt(Split(expanded_text), replacements[j][2], a)
                    /\ OccursAt(Split(expanded_text), replacements[k][2], b)
                    /\ a + Len(Split(replacements[j][2])) <= b

C2_Witness ==
    /\ pc = "replaced"
    /\ Len(replacements) = 2
    /\ replacements[1][1].start_line > replacements[2][1].start_line
    /\ replacements[1][2] = <<"A">>
    /\ replacements[2][2] = <<"A", NL, "B">>

-----------------------------------------------------------------------------
(* Properties of parse_markers (SpecParse) *)

DocLines == Split(text)

\* the line numbers (0-based) of the opening and of the closing directives
OpenersOf(ls) == {j \in 0..(Len(ls) - 1) : StartMatch(Strip(ls[j + 1]))}

ClosersOf(ls) == {j \in 0..(Len(ls) - 1) : EndMatch(Strip(ls[j + 1]))}

OpenerLines == LET ls == DocLines IN OpenersOf(ls)

CloserLines == LET ls == DocLines IN ClosersOf(ls)

MarkerSet == {markers[k] : k \in 1..Len(markers)}

\* C6: an opening directive with no closing directive between it and the end
\* of the document yields no marker; a document with one opener and no closer
\* yields the empty list.
C6_UnclosedOpenerDropped ==
    pc = "parsed" =>
        LET op == OpenerLines
            cl == CloserLines
        IN  /\ \A j \in op :
                  (~\E c \in cl : c > j) => ~\E m \in MarkerSet : m.start_line = j
            /\ (Cardinality(op) = 1 /\ cl = {}) => markers = <<>>

C6_Witness ==
    /\ pc = "parsed"
    /\ OpenerLines = {1}
    /\ CloserLines = {}
    /\ Len(DocLines) >= 3
    /\ markers = <<>>

C8_MarkersOrderedDisjoint ==
    pc = "parsed" =>
        LET op == OpenerLines
            cl == CloserLines
        IN  /\ \A k \in 1..Len(markers) :
                  /\ markers[k].start_line < markers[k].end_line
                  /\ markers[k].start_line \in op
                  /\ markers[k].end_line \in cl
            /\ \A k \in 1..(Len(markers) - 1) :
                  /\ markers[k].start_line < markers[k + 1].start_line
                  /\ markers[k].end_line < markers[k + 1].start_line

C8_Witness ==
    /\ pc = "parsed"
    /\ Len(markers) = 2
    /\ markers[1].start_line = 0
    /\ markers[2].end_line = 3

\* the operation token of the opener at line j
OperationToken(j) == StartOperationToken(Strip(lines[j + 1]))

\* the operation the claim assigns to a token
ExpectedOperation(tok) ==
    CASE tok \in {"expand"}                   -> "expand"
      [] tok \in {"evidence", "EVIDENCE"}     -> "evidence"
      [] tok \in {"citations", "Citations"}   -> "citations"
      [] tok \in {"clarity"}                  -> "clarity"
      [] tok \in {"contradict", "CONTRADICT"} -> "contradict"
      [] OTHER                                -> "expand"

\* C9: the operation token is matched case-insensitively against the five
\* operations; a well-formed pair with any other token still yields a marker,
\* with operation expand.
C9_OperationCaseInsensitive ==
    pc = "parsed" =>
        LET op == OpenerLines
            cl == CloserLines
        IN  /\ \A m \in MarkerSet :
                  m.operation = ExpectedOperation(OperationToken(m.start_line))
            /\ \A j \in op :
                  \A c \in cl :
                      (/\ j < c
                       /\ ~\E d \in cl : j < d /\ d < c
                       /\ ~\E m \in MarkerSet : m.start_line < j /\ j <= m.end_line)
                         => \E m \in MarkerSet :
                               /\ m.start_line = j
                               /\ m.end_line = c
                               /\ m.operation = ExpectedOperation(OperationToken(j))

C9_Witness ==
    /\ pc = "parsed"
    /\ Len(markers) = 2
    /\ OperationToken(markers[1].start_line) = "Summary"
    /\ markers[1].operation = "expand"
    /\ OperationToken(markers[2].start_line) = "EVIDENCE"
    /\ markers[2].operation = "evidence"

-----------------------------------------------------------------------------
(* Properties of expand_file (SpecExpand) *)

\* the lines start_line..end_line of the marker in the lines ls
RegionLines(ls, marker) == SubSeq(ls, marker.start_line + 1, marker.end_line + 1)

\* by how many lines a replaced region grows
LineDelta(exp) ==
    IF exp.success
    THEN Len(Split(exp.generated_content))
            - (exp.marker.end_line - exp.marker.start_line + 1)
    ELSE 0

\* by how many lines the region of the k-th marker has moved in the result
RECURSIVE ShiftBefore(_, _)
ShiftBefore(exps, k) ==
    IF k <= 1 THEN 0
    ELSE ShiftBefore(exps, k - 1) + LineDelta(exps[k - 1])

\* the region of the k-th marker stands in the returned text as it stood in
\* the original text
RegionUnchanged(k) ==
    LET m   == expansions[k].marker
        sh  == ShiftBefore(expansions, k)
        out == Split(expanded_text)
    IN  /\ m.end_line + sh + 1 <= Len(out)
        /\ SubSeq(out, m.start_line + sh + 1, m.end_line + sh + 1)
              = RegionLines(Split(text), m)

\* the region of the k-th marker is replaced by its generated content
RegionReplaced(k) ==
    LET m   == expansions[k].marker
        sh  == ShiftBefore(expansions, k)
        out == Split(expanded_text)
        gen == Split(expansions[k].generated_content)
    IN  /\ m.start_line + sh + Len(gen) <= Len(out)
        /\ SubSeq(out, m.start_line + sh + 1, m.start_line + sh + Len(gen)) = gen

\* C3: in the text expand_file returns, the region (opener, content, closer)
\* of every marker whose expansion has success false stands unchanged, the
\* region of every successful one is replaced by its generated content, and
\* when no expansion succeeded the returned text is the original text.
C3_OnlySuccessfulReplaced ==
    pc = "returned" =>
        /\ \A k \in 1..Len(expansions) :
              IF expansions[k].success
              THEN RegionReplaced(k)
              ELSE RegionUnchanged(k)
        /\ (\A k \in 1..Len(expansions) : ~expansions[k].success)
              => expanded_text = text

C3_Witness ==
    /\ pc = "returned"
    /\ Len(expansions) = 2
    /\ expansions[1].success
    /\ LineDelta(expansions[1]) # 0
    /\ ~expansions[2].success
    /\ expanded_text # text

\* C4: expand_file returns one ExpandedContent per parsed marker, in document
\* order; a marker whose handler or collaborator call raised has a result
\* with success false and the exception text as error_message, and the
\* markers after it are processed all the same.
C4_HandlerFailureIsLocal ==
    /\ pc \in {"expand_loop", "replace", "replace_loop", "replaced"}
          => Len(expansions) = Len(outcomes)
    /\ pc = "returned" =>
          /\ Len(expansions) = Len(markers)
          /\ \A k \in 1..Len(expansions) :
                /\ expansions[k].marker = markers[k]
                /\ k <= Len(outcomes)
                /\ outcomes[k].raised =>
                      /\ ~expansions[k].success
                      /\ expansions[k].error_message = Some(outcomes[k].exc)
          /\ \A n \in 1..Len(call_log) :
                call_log[n].raised =>
                   /\ call_log[n].marker <= Len(expansions)
                   /\ ~expansions[call_log[n].marker].success
                   /\ expansions[call_log[n].marker].error_message
                         = Some(call_log[n].exc)

C4_Witness ==
    /\ pc = "returned"
    /\ Len(markers) = 2
    /\ Len(expansions) = 2
    /\ outcomes[1].raised
    /\ \E n \in 1..Len(call_log) : call_log[n].marker = 1 /\ call_log[n].raised
    /\ expansions[2].success

\* the message a blank answer gives for the operation
BlankMessage(op) ==
    IF op = "evidence"
    THEN <<"FileIntel returned empty response - no evidence found">>
    ELSE <<"FileIntel returned empty response - no citations found">>

\* C10: when the RAG query of an evidence or citations marker returns an
\* answer that is empty or only whitespace, the marker's result has success
\* false and the message 'no evidence found' resp. 'no citations found', the
\* handler has returned rather than raised, and the marker's region stands
\* unchanged in the returned text.
C10_BlankAnswerIsFailure ==
    \A n \in 1..Len(call_log) :
        LET c == call_log[n]
            k == c.marker
        IN  (/\ c.to = "fileintel.query"
             /\ ~c.raised
             /\ Strip(c.answer) = <<>>
             /\ markers[k].operation \in {"evidence", "citations"})
            => /\ k <= Len(expansions)
               /\ ~expansions[k].success
               /\ expansions[k].error_message
                     = Some(BlankMessage(markers[k].operation))
               /\ expansions[k].error_message # Some(RagError)
               /\ expansions[k].generated_content = markers[k].content
               /\ ~outcomes[k].raised
               /\ pc = "returned" => RegionUnchanged(k)

C10_Witness ==
    /\ pc = "returned"
    /\ Len(expansions) = 2
    /\ markers[1].operation = "evidence"
    /\ markers[2].operation = "citations"
    /\ Len(call_log) = 2
    /\ ~call_log[1].raised
    /\ call_log[1].answer = <<" ", NL>>
    /\ ~call_log[2].raised
    /\ call_log[2].answer = <<>>
    /\ ~expansions[1].success
    /\ ~expansions[2].success
    /\ expanded_text = text

-----------------------------------------------------------------------------
(* Properties of process_document (SpecDoc) *)

\* the collaborators the requested operation needs are there
RequiredPresent ==
    CASE doc_operation = "find_citations"      -> fileintel
      [] doc_operation = "add_evidence"        -> fileintel
      [] doc_operation = "improve_clarity"     -> llm
      [] doc_operation = "find_contradictions" -> fileintel /\ llm
      [] OTHER                                 -> FALSE

ContentChunks == {k \in 1..Len(chunks) : chunks[k].type # "heading"}

-----------------------------------------------------------------------------
(* Properties of expand_file without an LLM client (SpecExpand) *)

\* the message of the result a marker of operation op gets without an LLM
LlmRequiredMessage(op) ==
    IF op = "clarity"
    THEN <<"LLM client required for clarity operation">>
    ELSE <<"LLM client required for contradict operation">>

\* C11: when the expander has no LLM client, every clarity marker and every
\* contradict marker that was attempted has a result with success false and
\* the message 'LLM client required for ... operation', its handler returned
\* rather than raised, its content is the marker's own, and the call log
\* holds no call to the RAG or the LLM collaborator made for that marker.
C11_NoLlmFailsWithoutCalls ==
    pc \in {"expand_loop", "replace", "replace_loop", "replaced", "returned"} =>
        \A k \in 1..Len(expansions) :
            (~llm /\ markers[k].operation \in {"clarity", "contradict"})
            => /\ expansions[k].marker = markers[k]
               /\ ~expansions[k].success
               /\ expansions[k].error_message
                     = Some(LlmRequiredMessage(markers[k].operation))
               /\ expansions[k].generated_content = markers[k].content
               /\ ~outcomes[k].raised
               /\ \A n \in 1..Len(call_log) : call_log[n].marker # k

C11_Witness ==
    /\ pc = "returned"
    /\ ~llm
    /\ Len(markers) = 2
    /\ markers[1].operation = "clarity"
    /\ markers[2].operation = "contradict"
    /\ Len(expansions) = 2
    /\ ~expansions[1].success
    /\ ~expansions[2].success
    /\ call_log = <<>>
    /\ expanded_text = text

-----------------------------------------------------------------------------
(* Properties of CounterargumentGenerator.generate (SpecCounter) *)

\* C12: in every run of generate the collaborator calls are, in this order,
\* a RAG query whose question is the original claim, the LLM claim inversion,
\* a RAG query whose question is the inverted claim the LLM returned, and the
\* synthesis LLM call; each call is made only after the calls before it have
\* returned, the synthesis call only when synthesis was requested, and a run
\* that returns has made all three resp. all four of them.
C12_CallsInOrder ==
    /\ Len(call_log) <= 4
    /\ Len(call_log) >= 1 =>
          /\ call_log[1].to = "fileintel.query"
          /\ call_log[1].question = text
    /\ Len(call_log) >= 2 =>
          /\ ~call_log[1].raised
          /\ call_log[2].to = "llm.invert_claim"
    /\ Len(call_log) >= 3 =>
          /\ ~call_log[2].raised
          /\ call_log[3].to = "fileintel.query"
          /\ call_log[3].question = call_log[2].answer
    /\ Len(call_log) >= 4 =>
          /\ ~call_log[3].raised
          /\ call_log[4].to = "llm.chat.completions"
          /\ include_synthesis
    /\ pc = "gen_returned" =>
          Len(call_log) = IF include_synthesis THEN 4 ELSE 3

C12_Witness ==
    /\ pc = "gen_returned"
    /\ include_synthesis
    /\ Len(call_log) = 4
    /\ call_log[1].question = <<"Growth", " ", "is", " ", "50%", ".">>
    /\ call_log[3].question = <<"q">>
    /\ gen_report.val.inverted_claim = <<"q">>

\* the text _synthesize returns when the completion is empty
UnableToSynthesize == <<"Unable to generate synthesis.">>

\* C13: when synthesis is requested and the synthesis LLM call fails (it
\* raises, or it returns no text), generate does not raise: it returns a report
\* whose synthesis is the fixed message and whose two evidence lists are those
\* built from the two query responses.
C13_SynthesisFailureDegrades ==
    \A n \in 1..Len(call_log) :
        (/\ call_log[n].to = "llm.chat.completions"
         /\ \/ call_log[n].raised
            \/ call_log[n].answer = UnableToSynthesize)
        => /\ pc = "gen_returned"
           /\ gen_error = None
           /\ gen_report # None
           /\ gen_report.val.synthesis = Some(UnableToSynthesize)
           /\ gen_report.val.supporting_evidence
                 = _build_evidence_list(supporting_response)
           /\ gen_report.val.contradicting_evidence
                 = _build_evidence_list(contradicting_response)

-----------------------------------------------------------------------------
(* Properties of extract_context (SpecContext) *)

\* the lines of text with the 0-based indices of S, in document order
RECURSIVE LinesAt(_, _, _)
LinesAt(ls, S, j) ==
    IF j >= Len(ls) THEN <<>>
    ELSE (IF j \in S THEN <<ls[j + 1]>> ELSE <<>>) \o LinesAt(ls, S, j + 1)

-----------------------------------------------------------------------------
(* Properties of chunk_markdown (SpecChunk) *)

\* the lines of the document
ChunkerDocLines == Split(text)

\* the 1-based numbers of the lines that open or close a fence, ascending
FenceLineNumbers ==
    SelectSeq([j \in 1..Len(ChunkerDocLines) |-> j],
              LAMBDA j : StartsFence(ChunkerDocLines[j]))

\* the closed fences of the document: the line numbers of opener and closer
ClosedFences ==
    {<<FenceLineNumbers[2 * k - 1], FenceLineNumbers[2 * k]>> :
        k \in 1..(Len(FenceLineNumbers) \div 2)}

\* C14: for a document that starts with a heading and contains a closed
\* fenced code block, chunk_markdown emits exactly one code-typed chunk whose
\* text is the whole fence from its opening line to its closing line,
\* whatever lines the fence contains and whatever block precedes it.
C14_FenceIsOneCodeChunk ==
    (/\ pc = "chunked"
     /\ HeadingMatch(ChunkerDocLines[1])
     /\ HeadingText(ChunkerDocLines[1]) # <<>>)
    => \A f \in ClosedFences :
          Cardinality({j \in 1..Len(chunks) :
                          /\ chunks[j].type = "code"
                          /\ chunks[j].text
                                = Join(SubSeq(ChunkerDocLines, f[1], f[2]))}) = 1

\* the tokens of s that are not white space
NonSpace(s) == SelectSeq(s, LAMBDA c : c \notin Whitespace)

\* the lines of the document that are not heading lines, joined
ContentOfDocument ==
    Join(SelectSeq(ChunkerDocLines, LAMBDA line : ~HeadingMatch(line)))

\* the texts of the chunks that are not heading chunks, joined
ContentOfChunks ==
    LET cs == SelectSeq(chunks, LAMBDA c : c.type # "heading")
    IN  Join([j \in 1..Len(cs) |-> cs[j].text])

\* C15: the texts of the chunks emitted by chunk_markdown, in emission order,
\* hold the content of the document: up to white space, the content lines of
\* the document (the text before the first heading and the text of a document
\* without heading included) are the texts of the non-heading chunks.
C15_ChunksHoldAllContent ==
    pc = "chunked" => NonSpace(ContentOfChunks) = NonSpace(ContentOfDocument)

\* text and level of the heading lines of the document, in document order
HeadingsOfDocument ==
    LET hs == SelectSeq(ChunkerDocLines, HeadingMatch)
    IN  [j \in 1..Len(hs) |->
            [text |-> HeadingText(hs[j]), level |-> HeadingHashes(hs[j])]]

\* text and level of the heading chunks, in emission order
HeadingsOfChunks ==
    LET cs == SelectSeq(chunks, LAMBDA c : c.type = "heading")
    IN  [j \in 1..Len(cs) |-> [text |-> cs[j].text, level |-> cs[j].level]]

\* C16: chunk_markdown emits one heading chunk for every line that matches
\* ^#{1,6}\s+.+$, in document order, with the line's heading text and with
\* level equal to its number of '#', also when the heading has no body.
C16_HeadingChunkPerHeadingLine ==
    pc = "chunked" => HeadingsOfChunks = HeadingsOfDocument

\* C17: no paragraph chunk made of two or more sentences has an estimated
\* token count len(text) // 4 above max_tokens.
C17_SubChunkWithinBudget ==
    \A j \in 1..Len(chunks) :
        (/\ chunks[j].type = "paragraph"
         /\ Len(_split_into_sentences(chunks[j].text)) >= 2)
        => _estimate_tokens(chunks[j].text) <= max_tokens

\* C18: for every code, list and quote chunk, start_pos and end_pos are
\* character offsets into the document with 0 <= start_pos <= end_pos, and
\* the document from start_pos to end_pos is the chunk's text.
C18_OffsetsSpanBlock ==
    \A j \in 1..Len(chunks) :
        chunks[j].type \in {"code", "list", "quote"}
        => /\ 0 <= chunks[j].start_pos
           /\ chunks[j].start_pos <= chunks[j].end_pos
           /\ Slice(text, chunks[j].start_pos, chunks[j].end_pos)
                 = chunks[j].text

-----------------------------------------------------------------------------
(* Properties of process_document from the markdown text (SpecProcess) *)

\* text and level of the heading lines of t, in order
HeadingLinesOf(t) ==
    LET hs == SelectSeq(Split(t), HeadingMatch)
    IN  [j \in 1..Len(hs) |->
            [text |-> HeadingText(hs[j]), level |-> HeadingHashes(hs[j])]]

\* the lines of t that are not heading lines, joined, without white space
ContentLinesOf(t) ==
    NonSpace(Join(SelectSeq(Split(t), LAMBDA line : ~HeadingMatch(line))))

\* the operation left the text of every chunk as it was
ChunksUnchanged ==
    \A j \in 1..Len(processed_chunks) :
        processed_chunks[j].processed_text = processed_chunks[j].original.text

\* C19: when the operation leaves every chunk's text unchanged, the
\* processed_text that process_document returns keeps the structure of the
\* document: its heading lines are the heading lines of the document, with
\* their '#' prefix, and its content is the content of the document, once
\* and in order.
C19_StructurePreserved ==
    (pc = "doc_returned" /\ ChunksUnchanged)
    => /\ HeadingLinesOf(processed_doc.val.processed_text) = HeadingLinesOf(text)
       /\ ContentLinesOf(processed_doc.val.processed_text) = ContentLinesOf(text)

-----------------------------------------------------------------------------
(* Properties of _split_into_sentences (SpecSentence) *)

\* str.lower() on one character
LowerChar(c) ==
    CASE c = "D" -> "d"
      [] c = "M" -> "m"
      [] c = "P" -> "p"
      [] c = "T" -> "t"
      [] c = "W" -> "w"
      [] OTHER   -> c

\* the word of t that ends just before position p (1-based), in lower case
RECURSIVE WordBefore(_, _)
WordBefore(t, p) ==
    IF p <= 1 \/ t[p - 1] \in Whitespace THEN <<>>
    ELSE Append(WordBefore(t, p - 1), LowerChar(t[p - 1]))

\* the positions of text where a sentence of cleaned_sentences ends and the
\* next one begins: the white space after the k-th sentence
SentenceBoundaries ==
    {k + Len(JoinWith(SubSeq(cleaned_sentences, 1, k), <<>>)) :
        k \in 1..(Len(cleaned_sentences) - 1)}

\* C22: the splitter places no sentence boundary after a full stop that
\* directly follows one of the abbreviations, compared without regard to
\* case, also when white space and a capital letter follow.
C22_NoBreakAfterAbbreviation ==
    pc = "split_done"
    => \A p \in 3..Len(text) :
          (/\ text[p] \in Whitespace
           /\ text[p - 1] = "."
           /\ WordBefore(text, p - 1) \in abbreviations)
          => p \notin SentenceBoundaries

-----------------------------------------------------------------------------
(* Properties of the expand handler (SpecExpand) *)

\* sub occurs in t as a run of consecutive tokens
Occurs(sub, t) ==
    \E a \in 0..(Len(t) - Len(sub)) : Slice(t, a, a + Len(sub)) = sub

\* C27: for every expand marker that was attempted and whose content has
\* bullet lines, a question was sent to the RAG collaborator for that marker,
\* and the question holds the topic of each bullet line.
C27_QuestionFromBullets ==
    \A k \in 1..Len(outcomes) :
        (/\ pc \in {"expand_loop", "replace", "replace_loop", "replaced",
                    "returned"}
         /\ markers[k].operation = "expand"
         /\ BulletTopics(markers[k].content) # <<>>)
        => \E n \in 1..Len(call_log) :
              /\ call_log[n].marker = k
              /\ \A j \in 1..Len(BulletTopics(markers[k].content)) :
                    Occurs(BulletTopics(markers[k].content)[j],
                           call_log[n].question)

-----------------------------------------------------------------------------
(* Properties of the markers during expand_file (SpecExpand) *)

\* expand_file has the markers parse_markers returned: line 72 is done
Parsed ==
    pc \in {"parsed", "expand_loop", "replace", "replace_loop", "replaced",
            "returned"}

\* marker m after the step and marker n before it agree on every field but
\* params
SameButParams(m, n) == [m EXCEPT !.params = n.params] = n

\* C26 as claimed: no step of expand_file after parsing changes any field of
\* a parsed marker.
C26_MarkersImmutable == [][Parsed => markers' = markers]_vars

\* C26: no step of expand_file after parsing changes operation, line
\* numbers, content, heading or heading level of a parsed marker, and no step
\* changes or removes a parameter the marker has; the only parameters added
\* are the defaults: type (the default search type) when the marker has
\* neither type nor search_type, format (the default answer format) when it
\* has neither format nor answer_format.  The marker carried in each
\* ExpandedContent is the marker with these defaults.
C26_OnlyDefaultsAdded ==
    /\ [][Parsed =>
            /\ Len(markers') = Len(markers)
            /\ \A k \in 1..Len(markers) :
                  LET old == markers[k].params
                      new == markers'[k].params
                  IN  /\ SameButParams(markers'[k], markers[k])
                      /\ \A key \in DOMAIN old :
                            key \in DOMAIN new /\ new[key] = old[key]
                      /\ \A key \in DOMAIN new \ DOMAIN old :
                            \/ /\ key = <<"type">>
                               /\ <<"search_type">> \notin DOMAIN old
                               /\ new[key] = default_search_type.val
                            \/ /\ key = <<"format">>
                               /\ <<"answer_format">> \notin DOMAIN old
                               /\ new[key] = default_answer_format.val
         ]_vars
    /\ [](Parsed => \A k \in 1..Len(expansions) :
                       expansions[k].marker = markers[k])

\* an evidence marker written with type=graph that got the default format
\* and kept its type, in the ExpandedContent returned for it
C26_Witness ==
    /\ pc = "returned"
    /\ default_search_type = Some(<<"vector">>)
    /\ Len(expansions) >= 1
    /\ expansions[1].marker.operation = "evidence"
    /\ expansions[1].marker.params[<<"type">>] = <<"graph">>
    /\ <<"format">> \in DOMAIN expansions[1].marker.params
    /\ expansions[1].marker.params[<<"format">>] = <<"table">>

-----------------------------------------------------------------------------
(* Properties of the heading of a marker (SpecParseBlocks) *)

\* the 0-based indices below n of the heading lines of the document
HeadingIndicesBelow(n) ==
    {j \in 0..(n - 1) : HeadingMatch(Split(text)[j + 1])}

\* the largest element of a non-empty set of numbers
Last(S) == CHOOSE j \in S : \A k \in S : k <= j

\* C25: for every marker parse_markers returns, heading and heading_level
\* are the text and the level of the last heading line whose index is below
\* the marker's start_line, also when that line lies inside the region of an
\* earlier marker; heading is None and the level 1 when there is no such
\* line.
C25_HeadingIsLastBefore ==
    pc = "parsed" =>
        \A k \in 1..Len(markers) :
            LET hs == HeadingIndicesBelow(markers[k].start_line)
            IN  IF hs = {}
                THEN /\ markers[k].heading = None
                     /\ markers[k].heading_level = 1
                ELSE LET line == Split(text)[Last(hs) + 1]
                     IN  /\ markers[k].heading = Some(HeadingText(line))
                         /\ markers[k].heading_level = HeadingHashes(line)

-----------------------------------------------------------------------------
(* Properties of the heading stack of _parse_sections (SpecChunk) *)

\* C24: whenever the section scan saves a section, the headings on the
\* heading stack have strictly increasing levels from bottom to top, so no
\* two headings of the same level are on the stack, or in a context path,
\* together.
C24_StackLevelsIncrease ==
    \A k \in 1..Len(sections) :
        \A a, b \in 1..Len(sections[k].stack_levels) :
            a < b => sections[k].stack_levels[a] < sections[k].stack_levels[b]

-----------------------------------------------------------------------------
(* Properties of ChapterProcessor.process (SpecChapter) *)

\* generation failed for outline item j
GenerationFailed(j) ==
    \E n \in 1..Len(generate_calls) :
        generate_calls[n].item = j /\ generate_calls[n].raised

IsPlaceholder(section) ==
    /\ section.content # <<>>
    /\ Head(section.content) = "Error generating section: "

\* C21: with continue_on_error true, process never raises because a
\* generation failed, and the chapter it returns has exactly one section per
\* outline item, descendants included, in outline pre-order: the placeholder
\* 'Error generating section' for each item whose generation failed and a
\* real section for every other item.
C21_OneSectionPerItem ==
    continue_on_error =>
        /\ pc # "chapter_raised"
        /\ pc = "chapter_returned" =>
              LET produced == chapter.val.sections
              IN  /\ Len(produced) = Len(outline)
                  /\ \A j \in 1..Len(outline) :
                        /\ produced[j].heading = outline[j].heading
                        /\ produced[j].level = outline[j].level
                        /\ IsPlaceholder(produced[j]) <=> GenerationFailed(j)

\* C28 as stated: the first generation call receives no context and every
\* later call, for a top-level item or a subsection, receives a context that
\* names the heading of the section generated immediately before it.
C28_ContextNamesPreviousSection ==
    \A n \in 1..Len(generate_calls) :
        LET call == generate_calls[n]
        IN  /\ n = 1 => call.context = None
            /\ n > 1 => /\ call.context.some
                        /\ Occurs(generate_calls[n - 1].heading,
                                  call.context.val)

\* C28, amended: calls are made one after another in outline pre-order; the
\* first receives no context; a later call for a top-level item receives
\* 'Previous section: ' and the heading of the section produced immediately
\* before it; a call for a subsection receives 'Parent section: ' and the
\* heading of its parent item.
C28_ContextByPosition ==
    \A n \in 1..Len(generate_calls) :
        LET call == generate_calls[n]
            item == outline[call.item]
        IN  /\ n = 1 => call.item = 1 /\ call.context = None
            /\ n > 1 => call.item > generate_calls[n - 1].item
            /\ n > 1 /\ item.parent = 0 =>
                  call.context = Some(<<"Previous section: ">>
                                        \o generate_calls[n - 1].heading)
            /\ item.parent # 0 =>
                  call.context = Some(<<"Parent section: ">>
                                        \o outline[item.parent].heading)

\* the second subsection of the first item has been generated after the
\* first subsection
C28_Witness ==
    /\ Len(generate_calls) = 3
    /\ outline[2].parent = 1
    /\ outline[3].parent = 1
    /\ generate_calls[3].item = 3
    /\ generate_calls[3].context = Some(<<"Parent section: ", "h1">>)

\* the citation a section denotes by footnote number n
Denoted(section, n) ==
    {section.citations[c] : c \in {c \in 1..Len(section.citations) :
                                      section.citations[c].id = n}}

Range(s) == {s[c] : c \in 1..Len(s)}

\* C29: after deduplication and renumbering of sections whose citations are
\* each numbered from 1, every footnote marker of a section's content refers
\* to the unique citation with the same (author, title, page) as the
\* citation the marker denoted in that section before, and the section's
\* citation list holds exactly the unique citations its own citations were
\* mapped to.
C29_MarkersFollowCitations ==
    pc = "chapter_returned" =>
        \A k \in 1..Len(chapter.val.sections) :
            LET before == IF generate_calls[k].raised
                          THEN [content |-> <<>>, citations |-> <<>>]
                          ELSE generate_calls[k].section
                after  == chapter.val.sections[k]
            IN  /\ \A p \in 1..Len(before.content) :
                      IsFootnoteMarker(before.content[p]) =>
                          \A old \in Denoted(before, MarkerId(before.content[p])) :
                              \E new \in Range(chapter.val.citations) :
                                  /\ new.id = MarkerId(after.content[p])
                                  /\ CitationKey(new) = CitationKey(old)
                /\ Range(after.citations) =
                      {u \in Range(chapter.val.citations) :
                          \E old \in Range(before.citations) :
                              CitationKey(u) = CitationKey(old)}

-----------------------------------------------------------------------------
(* Order of the marker expansions in expand_file (SpecExpand) *)

\* the calls made for marker k, in the order they were made
CallsFor(k) == SelectSeq(call_log, LAMBDA c : c.marker = k)

\* C23: during expand_file the markers are resolved one at a time in
\* ascending start_line order.  Every step resolves at most one marker, the
\* one after those whose result is recorded, and every external call a step
\* makes is for that marker, so that no call for marker k + 1 precedes the
\* recorded result of marker k and the log of calls is ordered by marker.
\* The context of each marker is computed from the original text, which no
\* step changes while markers are resolved.
C23_OneMarkerAtATime ==
    /\ [][/\ text' = text
          /\ Len(outcomes') \in {Len(outcomes), Len(outcomes) + 1}
          /\ \A n \in (Len(call_log) + 1)..Len(call_log') :
                /\ call_log'[n].marker = Len(outcomes) + 1
                /\ Len(outcomes') = Len(outcomes) + 1]_vars
    /\ [](/\ Len(expansions) = Len(outcomes)
          /\ \A n \in 1..Len(call_log) :
                /\ call_log[n].marker <= Len(outcomes)
                /\ n > 1 => call_log[n - 1].marker <= call_log[n].marker
          /\ \A k \in 1..Len(outcomes) :
                /\ expansions[k].marker = markers[k]
                /\ k > 1 => markers[k - 1].start_line < markers[k].start_line
                /\ outcomes[k].context = extract_context(text, markers[k], 10))

\* expand_file has returned after two markers were resolved with a call
\* each, the first successfully, and the context of the second holds lines
\* of the original text
C23_Witness ==
    /\ pc = "returned"
    /\ Len(outcomes) = 2
    /\ CallsFor(1) # <<>>
    /\ CallsFor(2) # <<>>
    /\ expansions[1].success
    /\ expansions[1].generated_content # markers[1].content
    /\ outcomes[2].context # <<>>
    /\ outcomes[2].context # outcomes[1].context

-----------------------------------------------------------------------------
(* Properties of the FileIntelClient connection (SpecClient) *)

InScope == pc \in {"client_inside", "client_raising"}

ClientOperations == {"query", "health_check", "list_collections"}

\* the last __aenter__ or close among the first n - 1 calls, 0 when none
LastLifecycle(n) ==
    LET S == {m \in 1..(n - 1) : client_log[m].op \in {"__aenter__", "close"}}
    IN  IF S = {} THEN 0 ELSE CHOOSE m \in S : \A q \in S : q <= m

\* C30: the connection exists only between entering and leaving the
\* client's context and is open while it is held; outside the context every
\* connection ever created is closed, whether the body ended normally or by
\* an exception; every operation made while the connection is held sends
\* its request on the connection the enclosing __aenter__ created; an
\* operation before entering or after closing raises the 'not initialized'
\* error and sends no request; and close on a closed client changes neither
\* the client nor any connection.
C30_ScopedConnection ==
    /\ [](/\ _client # None =>
                /\ InScope
                /\ connections[_client.val] = "open"
          /\ \A c \in 1..Len(connections) :
                connections[c] = "open" => _client = Some(c)
          /\ ~InScope => \A c \in 1..Len(connections) : connections[c] = "closed"
          /\ \A n \in 1..Len(client_log) :
                client_log[n].op \in ClientOperations =>
                   LET m == LastLifecycle(n)
                   IN  IF m # 0 /\ client_log[m].op = "__aenter__"
                       THEN client_log[n].connection = client_log[m].connection
                       ELSE /\ client_log[n].connection = 0
                            /\ client_log[n].raised
                            /\ client_log[n].exc = NotInitialized)
    /\ [][(/\ _client = None
           /\ Len(client_log') = Len(client_log) + 1
           /\ client_log'[Len(client_log')].op = "close")
          => /\ _client' = None
             /\ connections' = connections
             /\ pc' \in {pc, "client_outside"}]_vars

\* an exception left the body of `async with`, the connection was released,
\* an operation after that failed as not initialized and close was called
\* once more
C30_Witness ==
    /\ Len(client_log) = 5
    /\ client_log[1].op = "__aenter__"
    /\ client_log[2].op = "query"
    /\ client_log[2].connection = 1
    /\ client_log[2].raised
    /\ client_log[3].op = "close"
    /\ client_log[3].connection = 1
    /\ client_log[4].op = "health_check"
    /\ client_log[4].exc = NotInitialized
    /\ client_log[5].op = "close"
    /\ client_log[5].connection = 0
    /\ connections = <<"closed">>

====
